---------------------------- MODULE Spec2Model ----------------------------
(***************************************************************************)
(* Model of the per-tenant Fabric worker of the ACI integration module     *)
(* (aim/agent/aid/universes/aci/tenant.py): the subscription drain, the    *)
(* root reset, flatten, fill, the ownership filter, the folding of events  *)
(* into the configuration, operational and monitored trees, and the        *)
(* outbound push of the backlog.                                           *)
(*                                                                         *)
(* A DN is a sequence of RNs and an RN a sequence <<prefix, name>>: the    *)
(* string 'uni/tn-t/BD-b' is <<<<"uni">>, <<"tn","t">>, <<"BD","b">>>>, so *)
(* that dn.split('/') and '/'.join(...) are operations on the sequence.    *)
(* An event {klass: {'attributes': {...}, 'children': [...]}} is a record  *)
(* [klass, attributes, children] whose attributes are a record with the    *)
(* keys the event carries; a missing key reads as None.                    *)
(***************************************************************************)
EXTENDS Integers, Sequences, FiniteSets, TLC

VARIABLES
    apic,              \* the Fabric: MO DN -> "absent" | "present" | "cleared"
    subscribed,        \* the session holds a subscription for the tenant URL
    ws_events,         \* session.subscription_thread._events[url]
    pc,                \* position of the worker inside _main_loop/_event_loop
    events,            \* the local 'events' of _event_loop
    owned_events,      \* the local 'owned' of _event_loop
    monitored_events,  \* the local 'monitored' of _event_loop
    drained_from,      \* history: the queue the batch to fill was drained from
    had_reset,         \* the drained batch held a status-less root event
    state,             \* self._state (configuration tree)
    operational_state, \* self._operational_state
    monitored_state,   \* self._monitored_state
    tag_set,           \* self.tag_set
    object_backlog,    \* self.object_backlog (Queue.Queue)
    request,           \* what is left of the request _push_aim_resources got
    next_id,           \* number given to the next enqueued request
    last_get,          \* number of the request dequeued last
    last_push,         \* the last push attempt and the callbacks it made
    desired,           \* the DNs of the desired configuration of the tenant
    sync_status,       \* the sync status of the BD in the store
    tracked,           \* history: number of the request of the last diff
    sync_phase,        \* history: how far the tracked request has come
    count,             \* the local 'count' of _main_loop
    warm,              \* self._warm
    snapshot,          \* the tree the reader got from its last call
    action_cache,      \* the reconciler's record of the operation it repeats
    failures,          \* the reconciler's record of the failed pushes
    agents,            \* the agents registered in the store, and the roots
    tenant,            \* self.tenant, and the URL it subscribed with
    reconcile_calls,   \* history: EventHandler.reconcile() calls of the fold
    session,           \* the Fabric session: subscription URL -> its events
    managers           \* the workers of the roots that share the session

\* a session that is shared, and the workers that share it
shared == <<session, managers>>

vars == <<apic, subscribed, ws_events, pc, events, owned_events,
          monitored_events, drained_from, had_reset, state, operational_state,
          monitored_state, tag_set, object_backlog, request, next_id,
          last_get, last_push, desired, sync_status, tracked, sync_phase,
          count, warm, snapshot, action_cache, failures, agents,
          tenant, reconcile_calls, shared>>

\* what the agent keeps for all its roots
aid_state == <<action_cache, failures, agents>>

\* what the reconciler holds, and the history of its last request
sync_state == <<desired, sync_status, tracked, sync_phase>>

----------------------------------------------------------------------------
(* Module constants of tenant.py and the values it reads from its imports. *)

TENANT_KEY == "fvTenant"
INFRA_KEY == "infraInfra"
ROOT_KEYS == {TENANT_KEY, INFRA_KEY}
FAULT_KEY == "faultInst"
TAG_KEY == "tagInst"
BD_KEY == "fvBD"
STATUS_FIELD == "status"
SEVERITY_FIELD == "severity"
CHILDREN_FIELD == "children"
OPERATIONAL_LIST == {FAULT_KEY}
DELETED_STATUS == "deleted"
CLEARED_SEVERITY == "cleared"
MULTI_PARENT == {FAULT_KEY, TAG_KEY}
None == "None"
tag_name == "sys"

\* apic_client.ManagedObjectClass.mos_to_prefix, for the classes of the model
mos_to_prefix == [fvTenant |-> "tn", fvBD |-> "BD", faultInst |-> "fault",
                  tagInst |-> "tag"]

\* converter.resource_map.keys(): the classes the converter knows
resource_map == {TENANT_KEY, BD_KEY, FAULT_KEY}

\* the name of the tenant of the modelled worker (MoOrder: uni/tn-t)
tenant_name == "t"

----------------------------------------------------------------------------
(* Tenant and Infra: the subscription URL.  A string that is still to be    *)
(* formatted is a sequence of pieces, FIELD standing for the replacement    *)
(* field '{}'; str.format gives the text with the fields replaced, and the  *)
(* text of a string that was never formatted has the braces in it.          *)

FIELD == "{}"

RECURSIVE Text(_)
\* the characters of the pieces, as they are
Text(pieces) ==
    IF pieces = <<>> THEN "" ELSE Head(pieces) \o Text(Tail(pieces))

\* pieces.format(arg), for one positional argument
format(pieces, arg) ==
    Text([i \in 1..Len(pieces) |->
             IF pieces[i] = FIELD THEN arg ELSE pieces[i]])

RECURSIVE join(_, _)
\* sep.join(items)
join(sep, items) ==
    IF items = <<>> THEN ""
    ELSE IF Len(items) = 1 THEN items[1]
    ELSE items[1] \o sep \o join(sep, Tail(items))

\* Tenant._rn_fmt, Infra._rn_fmt
_rn_fmt(kind) == IF kind = "Infra" THEN <<FIELD>> ELSE <<"tn-", FIELD>>

URL_QUERY ==
    <<".json?query-target=subtree&",
      "rsp-prop-include=config-only&rsp-subtree-include=faults&",
      "subscription=yes">>

\* the expression of lines 64-66: .format applies to the literal it follows,
\* which is made of the three adjacent literals after the second '+'
UrlBase(kind, name) ==
    "/api/mo/uni/" \o Text(_rn_fmt(kind)) \o format(URL_QUERY, name)

\* filtered_children is a set: its members in the order of its iteration
_get_instance_subscription_urls(target) ==
    LET url == UrlBase(target.kind, target.name)
    IN  IF target.filtered_children # <<>>
        THEN <<url \o "&target-subtree-class="
                   \o join(",", target.filtered_children)>>
        ELSE <<url>>

\* Tenant(name, filtered_children=children_mos), before any subscription
Tenant(name, children_mos) ==
    [kind |-> "Tenant", name |-> name, filtered_children |-> children_mos,
     url |-> ""]

\* Infra('infra', filtered_children=children_mos)
Infra(name, children_mos) ==
    [kind |-> "Infra", name |-> name, filtered_children |-> children_mos,
     url |-> ""]

----------------------------------------------------------------------------
(* Helpers over sequences, DNs and attribute dictionaries.                 *)

Last(s) == s[Len(s)]
Front(s) == SubSeq(s, 1, Len(s) - 1)
Range(s) == {s[i] : i \in 1..Len(s)}
MinOf(S) == CHOOSE x \in S : \A y \in S : x <= y

RECURSIVE SelectIdx(_, _, _)
\* the subsequence of s at the indices of I, in order
SelectIdx(s, I, i) ==
    IF i > Len(s) THEN <<>>
    ELSE (IF i \in I THEN <<s[i]>> ELSE <<>>) \o SelectIdx(s, I, i + 1)

\* dict.get(k): the value, or None when the key is missing
Get(attrs, k) == IF k \in DOMAIN attrs THEN attrs[k] ELSE None
\* Python truth of an attribute value
Truthy(v) == v # None /\ v # ""

\* '/'.join(dn.split('/')[:-1])
ParentDn(dn) == Front(dn)
OwnTagRn == <<"tag", tag_name>>
TagDn(dn) == Append(dn, OwnTagRn)
IsPrefix(p, d) == Len(p) <= Len(d) /\ SubSeq(d, 1, Len(p)) = p

Dn(event) == event.attributes.dn


----------------------------------------------------------------------------
(* Tenant.instance_get_event_data: drain the subscription, aggregating the  *)
(* events of the same class and DN.  partial.update(event) replaces the     *)
(* value under the class key, that is the whole body of the earlier event.  *)

RECURSIVE SquashKeepFirst(_, _)
\* the aggregation that keeps the earlier event of a class and DN
SquashKeepFirst(queue, result) ==
    IF queue = <<>> THEN result
    ELSE LET event == Head(queue)
         IN  IF \E i \in 1..Len(result) :
                    /\ result[i].klass = event.klass
                    /\ Dn(result[i]) = Dn(event)
             THEN SquashKeepFirst(Tail(queue), result)
             ELSE SquashKeepFirst(Tail(queue), Append(result, event))

RECURSIVE SquashEvents(_, _)
SquashEvents(queue, result) ==
    IF queue = <<>> THEN result
    ELSE LET event == Head(queue)
             same == {i \in 1..Len(result) :
                         /\ result[i].klass = event.klass
                         /\ Dn(result[i]) = Dn(event)}
         IN  IF same # {}
             THEN SquashEvents(Tail(queue),
                               [result EXCEPT ![MinOf(same)] = event])
             ELSE SquashEvents(Tail(queue), Append(result, event))

instance_get_event_data(queue) == SquashEvents(queue, <<>>)

\* a reset on every root object, whatever its status
IsResetEventAnyStatus(event) == event.klass \in ROOT_KEYS

\* _event_loop, lines 275-284: a root object without status is a full resync
IsResetEvent(event) ==
    /\ event.klass \in ROOT_KEYS
    /\ ~Truthy(Get(event.attributes, STATUS_FIELD))

NeedsReset(evs) == \E i \in 1..Len(evs) : IsResetEvent(evs[i])

----------------------------------------------------------------------------
(* AciTenantManager.flat_events: children are appended to the list that is  *)
(* being iterated, so that a child's own children are reached in turn.      *)

HasChildren(event) ==
    /\ CHILDREN_FIELD \in DOMAIN event
    /\ event.children # <<>>

\* an RN made of the prefix of the class alone
ChildRnPrefixOnly(child) == <<mos_to_prefix[child.klass]>>

\* the RN the code builds for a child: rn, or prefix[-name_or_code]
ChildRn(child) ==
    LET attrs == child.attributes
        rn == Get(attrs, "rn")
        name_or_code == IF "name" \in DOMAIN attrs THEN attrs["name"]
                        ELSE Get(attrs, "code")
        prefix == mos_to_prefix[child.klass]
    IN  IF Truthy(rn) THEN rn
        ELSE IF Truthy(name_or_code) THEN <<prefix, name_or_code>>
        ELSE <<prefix>>

WithDn(child, dn) ==
    [child EXCEPT !.attributes =
        [k \in DOMAIN child.attributes \cup {"dn"} |->
            IF k = "dn" THEN dn ELSE child.attributes[k]]]

\* event.values()[0].pop(CHILDREN_FIELD)
PopChildren(event) == [k \in DOMAIN event \ {CHILDREN_FIELD} |-> event[k]]

RECURSIVE ValidChildrenAll(_, _)
\* the children of every class, known or not, under the name of the class
ValidChildrenAll(children, parent_dn) ==
    IF children = <<>> THEN <<>>
    ELSE LET child == Head(children)
             rn == IF child.klass \in DOMAIN mos_to_prefix
                   THEN <<mos_to_prefix[child.klass]>>
                   ELSE <<child.klass>>
         IN  <<[child EXCEPT !.attributes =
                   [k \in DOMAIN child.attributes \cup {"dn"} |->
                       IF k = "dn" THEN Append(parent_dn, rn)
                       ELSE child.attributes[k]]]>>
             \o ValidChildrenAll(Tail(children), parent_dn)

RECURSIVE ValidChildren(_, _)
ValidChildren(children, parent_dn) ==
    IF children = <<>> THEN <<>>
    ELSE LET child == Head(children)
         IN  IF child.klass \notin DOMAIN mos_to_prefix
             THEN ValidChildren(Tail(children), parent_dn)
             ELSE <<WithDn(child, Append(parent_dn, ChildRn(child)))>>
                  \o ValidChildren(Tail(children), parent_dn)

RECURSIVE FlatFrom(_, _)
FlatFrom(evs, i) ==
    IF i > Len(evs) THEN evs
    ELSE IF HasChildren(evs[i])
         THEN FlatFrom([evs EXCEPT ![i] = PopChildren(evs[i])]
                          \o ValidChildren(evs[i].children, Dn(evs[i])),
                       i + 1)
         ELSE FlatFrom(evs, i + 1)

flat_events(evs) == FlatFrom(evs, 1)

_is_deleting(aci_object) ==
    LET attrs == aci_object.attributes
        status == IF STATUS_FIELD \in DOMAIN attrs THEN attrs[STATUS_FIELD]
                  ELSE Get(attrs, SEVERITY_FIELD)
    IN  status \in {DELETED_STATUS, CLEARED_SEVERITY}

----------------------------------------------------------------------------
(* The managed objects of the modelled tenant and the Fabric's answers.     *)

TN == <<<<"uni">>, <<"tn", "t">>>>
BD == Append(TN, <<"BD", "b">>)
FLT == Append(BD, <<"fault", "F1">>)
\* every MO of the tenant's subtree, parents before children
MoOrder == <<TN, BD, TagDn(BD), FLT>>
MoDns == Range(MoOrder)

KlassOf(dn) ==
    CHOOSE k \in DOMAIN mos_to_prefix : mos_to_prefix[k] = Last(dn)[1]

\* the MO at dn as the Fabric returns or announces it, without status
MoData(dn) ==
    IF KlassOf(dn) = FAULT_KEY
    THEN [klass |-> FAULT_KEY,
          attributes |-> [dn |-> dn, code |-> Last(dn)[2],
                          severity |-> IF apic[dn] = "cleared"
                                       THEN CLEARED_SEVERITY ELSE "minor"]]
    ELSE [klass |-> KlassOf(dn), attributes |-> [dn |-> dn]]

\* aci_session.get_data('mo/' + dn, query_target='subtree',
\*                      target_subtree_class=...) on an existing object
get_data(dn, query_targets) ==
    LET hit == {i \in 1..Len(MoOrder) :
                   /\ IsPrefix(dn, MoOrder[i])
                   /\ apic[MoOrder[i]] # "absent"
                   /\ KlassOf(MoOrder[i]) \in query_targets}
        found == SelectIdx(MoOrder, hit, 1)
    IN  [i \in 1..Len(found) |-> MoData(found[i])]

----------------------------------------------------------------------------
(* converter.AciToAimModelConverter / AimToAciModelConverter: one Model     *)
(* object per MO of a known class, nothing for the other classes.  The      *)
(* monitored and pre_existing flags exist on the Model side only.           *)

AimOf(event) ==
    [dn |-> Dn(event), aci_mo_name |-> event.klass,
     monitored |-> FALSE, pre_existing |-> FALSE]

RECURSIVE ToAim(_)
ToAim(evs) ==
    IF evs = <<>> THEN <<>>
    ELSE (IF Head(evs).klass \in resource_map THEN <<AimOf(Head(evs))>>
          ELSE <<>>) \o ToAim(Tail(evs))

AciOf(aim_object) ==
    [klass |-> aim_object.aci_mo_name,
     attributes |-> [dn |-> aim_object.dn]]

ToAci(objs) == [i \in 1..Len(objs) |-> AciOf(objs[i])]

SUBJ_KEY == "vzSubj"
FILTER_KEY == "vzRsFiltAtt"

\* AimToAciModelConverter.convert([aim_object]): a ContractSubject gives the
\* subject and one MO for each of its filters, any other Model object one MO
convert(aim_object) ==
    IF aim_object.aci_mo_name = SUBJ_KEY
    THEN <<AciOf(aim_object),
           [klass |-> FILTER_KEY,
            attributes |-> [dn |-> aim_object.dn
                                 \o <<<<"intmnl">>, <<"rsfiltAtt", "i1">>>>]],
           [klass |-> FILTER_KEY,
            attributes |-> [dn |-> aim_object.dn
                                 \o <<<<"outtmnl">>, <<"rsfiltAtt", "o1">>>>]]>>
    ELSE <<AciOf(aim_object)>>

----------------------------------------------------------------------------
(* AciTenantManager.retrieve_aci_objects (_fill_events).  missing[i] is the *)
(* Fabric's answer when the object of event i does not exist: "404" (an     *)
(* ApicResponseNotOk with err_code 404) or "empty" (no data).               *)

RECURSIVE AppendUnvisited(_, _, _)
\* for item in data: if its dn is not visited, append it and visit its dn
AppendUnvisited(data, visited, result) ==
    IF data = <<>> THEN [visited |-> visited, result |-> result]
    ELSE IF Dn(Head(data)) \in visited
         THEN AppendUnvisited(Tail(data), visited, result)
         ELSE AppendUnvisited(Tail(data), visited \cup {Dn(Head(data))},
                              Append(result, Head(data)))

\* get_all=True: every event that is not deleted is retrieved
IsIncompleteGetAll(event) == TRUE

\* elif get_all or status or res_type in OPERATIONAL_LIST, with get_all False
IsIncomplete(event) ==
    \/ Truthy(Get(event.attributes, STATUS_FIELD))
    \/ event.klass \in OPERATIONAL_LIST

\* acc.gets: the DNs of the get_data calls made so far, in order
FillOne(event, acc, answer) ==
    LET status == Get(event.attributes, STATUS_FIELD)
        raw_dn == Get(event.attributes, "dn")
        aim_resources == ToAim(<<event>>)
        fetched ==
            IF aim_resources = <<>> \/ aim_resources[1].dn \in acc.visited
            THEN acc
            ELSE LET aim_res == aim_resources[1]
                     dn == aim_res.dn
                     query_targets == {aim_res.aci_mo_name, TAG_KEY}
                     asked == [acc EXCEPT !.gets = Append(@, dn)]
                 IN  IF apic[dn] = "absent"
                     THEN IF answer = "404" THEN asked
                          ELSE [asked EXCEPT !.visited = @ \cup {dn}]
                     ELSE LET got == AppendUnvisited(
                                         get_data(dn, query_targets),
                                         acc.visited, acc.result)
                          IN  [asked EXCEPT !.visited = got.visited \cup {dn},
                                            !.result = got.result]
        tail(a) == IF ~Truthy(status) /\ raw_dn \notin a.visited
                   THEN [a EXCEPT !.result = Append(@, event)]
                   ELSE a
    IN  IF status = DELETED_STATUS
        THEN IF raw_dn \notin acc.visited
             THEN [acc EXCEPT !.result = Append(@, event)]
             ELSE acc
        ELSE IF IsIncomplete(event)
             THEN tail(fetched)
             ELSE tail(acc)

RECURSIVE FillFrom(_, _, _, _)
FillFrom(evs, i, acc, missing) ==
    IF i > Len(evs) THEN acc
    ELSE FillFrom(evs, i + 1, FillOne(evs[i], acc, missing[i]), missing)

NothingFilled == [visited |-> {}, result |-> <<>>, gets |-> <<>>]

retrieve_aci_objects(evs, missing) ==
    FillFrom(evs, 1, NothingFilled, missing).result

\* the DNs retrieve_aci_objects asks the Fabric for, in order
get_data_calls(evs, missing) ==
    FillFrom(evs, 1, NothingFilled, missing).gets

----------------------------------------------------------------------------
(* structured_tree.StructuredHashTree and tree_model.AimHashTreeMaker: a    *)
(* tree maps the DN of each object it holds to the fingerprint of the       *)
(* object.  A delete removes the object's node with the subtree below it.   *)

EmptyTree == <<>>

Fingerprint(obj) ==
    [monitored |-> obj.monitored, pre_existing |-> obj.pre_existing]

RECURSIVE TreeUpdate(_, _)
TreeUpdate(tree, objs) ==
    IF objs = <<>> THEN tree
    ELSE LET obj == Head(objs)
         IN  TreeUpdate([k \in DOMAIN tree \cup {obj.dn} |->
                            IF k = obj.dn THEN Fingerprint(obj) ELSE tree[k]],
                        Tail(objs))

TreeDelete(tree, objs) ==
    LET gone == {k \in DOMAIN tree :
                    \E i \in 1..Len(objs) : IsPrefix(objs[i].dn, k)}
    IN  [k \in DOMAIN tree \ gone |-> tree[k]]

----------------------------------------------------------------------------
(* AciTenantManager._filter_ownership, _is_owned                            *)

\* ownership by the object's own DN alone, whatever its class
_is_ownedByDn(aci_object, tags) == Dn(aci_object) \in tags

_is_owned(aci_object, tags) ==
    IF aci_object.klass \in MULTI_PARENT
    THEN ParentDn(Dn(aci_object)) \in tags
    ELSE Dn(aci_object) \in tags

\* a first loop that reads no tag
ManageTagsNone(evs, tags) == tags

RECURSIVE ManageTagsOfAnyAgent(_, _)
\* a first loop that takes the tag of any agent for a tag of its own
ManageTagsOfAnyAgent(evs, tags) ==
    IF evs = <<>> THEN tags
    ELSE LET event == Head(evs)
         IN  IF event.klass = TAG_KEY
             THEN IF _is_deleting(event)
                  THEN ManageTagsOfAnyAgent(Tail(evs),
                                            tags \ {ParentDn(Dn(event))})
                  ELSE ManageTagsOfAnyAgent(Tail(evs),
                                            tags \cup {ParentDn(Dn(event))})
             ELSE ManageTagsOfAnyAgent(Tail(evs), tags)

RECURSIVE ManageTags(_, _)
\* the first loop: the tag events of the batch, in order, update tag_set
ManageTags(evs, tags) ==
    IF evs = <<>> THEN tags
    ELSE LET event == Head(evs)
         IN  IF event.klass = TAG_KEY /\ Last(Dn(event)) = OwnTagRn
             THEN IF _is_deleting(event)
                  THEN ManageTags(Tail(evs), tags \ {ParentDn(Dn(event))})
                  ELSE ManageTags(Tail(evs), tags \cup {ParentDn(Dn(event))})
             ELSE ManageTags(Tail(evs), tags)

\* a second loop that goes over the tag events as well
ManagedWithTags(evs) == evs

Managed(evs) ==
    SelectIdx(evs, {i \in 1..Len(evs) : evs[i].klass # TAG_KEY}, 1)

OwnedOf(managed, tags) ==
    SelectIdx(managed, {i \in 1..Len(managed) :
        _is_owned(managed[i], tags) \/ _is_deleting(managed[i])}, 1)

MonitoredOf(managed, tags) ==
    SelectIdx(managed, {i \in 1..Len(managed) :
        ~_is_owned(managed[i], tags) \/ _is_deleting(managed[i])}, 1)

_filter_ownership(evs, tags) ==
    LET new_tags == ManageTags(evs, tags)
        managed == Managed(evs)
    IN  [tag_set |-> new_tags,
         owned |-> OwnedOf(managed, new_tags),
         monitored |-> MonitoredOf(managed, new_tags)]

----------------------------------------------------------------------------
(* AciTenantManager._event_to_tree                                          *)

\* the buckets without the test on the class of the event
BucketAnyClass(evs, fault, deleting) ==
    SelectIdx(evs, {i \in 1..Len(evs) : _is_deleting(evs[i]) = deleting}, 1)

\* trees[event.keys()[0] == FAULT_KEY]['delete' or 'create'].append(event)
Bucket(evs, fault, deleting) ==
    SelectIdx(evs, {i \in 1..Len(evs) :
        /\ (evs[i].klass = FAULT_KEY) = fault
        /\ _is_deleting(evs[i]) = deleting}, 1)

\* an evaluate_event that leaves the tag list alone
DiscardNone(evs, tags) == tags

\* evaluate_event pops the DN of every deleting event from the tag list
DiscardDeleted(evs, tags) ==
    tags \ {Dn(evs[i]) : i \in {j \in 1..Len(evs) : _is_deleting(evs[j])}}

_monitor(obj) == [obj EXCEPT !.monitored = TRUE]
_screen_monitored(obj) == ToAim(ToAci(<<obj>>))[1]
_set_pre_existing(obj) ==
    [obj EXCEPT !.monitored = FALSE, !.pre_existing = TRUE]

\* _monitor(self._monitored_state, obj) on every object of a bucket
Monitored(objs) == [i \in 1..Len(objs) |-> _monitor(objs[i])]
Screened(objs) == [i \in 1..Len(objs) |->
                      _set_pre_existing(_screen_monitored(objs[i]))]
\* for obj in tree[...]: if obj.dn in additional_objects: _set_pre_existing
MarkKnown(objs, additional) ==
    [i \in 1..Len(objs) |->
        IF \E j \in 1..Len(additional) : additional[j].dn = objs[i].dn
        THEN _set_pre_existing(objs[i]) ELSE objs[i]]

\* the buckets of the three trees, converted, as the loop of lines 443-478
\* leaves them
MonitoredCreate(monitored) ==
    Monitored(ToAim(Bucket(monitored, FALSE, FALSE)))
MonitoredDelete(monitored) ==
    Monitored(ToAim(Bucket(monitored, FALSE, TRUE)))
ConfigCreate(owned, monitored) ==
    LET additional == Screened(MonitoredCreate(monitored))
    IN  MarkKnown(ToAim(Bucket(owned, FALSE, FALSE)), additional)
        \o additional
ConfigDelete(owned, monitored) ==
    LET additional == Screened(MonitoredDelete(monitored))
    IN  MarkKnown(ToAim(Bucket(owned, FALSE, TRUE)), additional)
        \o additional
OperationalCreate(owned, monitored) ==
    ToAim(Bucket(owned, TRUE, FALSE) \o Bucket(monitored, TRUE, FALSE))
OperationalDelete(owned, monitored) ==
    ToAim(Bucket(owned, TRUE, TRUE) \o Bucket(monitored, TRUE, TRUE))

FoldMonitored(tree, monitored) ==
    TreeUpdate(TreeDelete(tree, MonitoredDelete(monitored)),
               MonitoredCreate(monitored))

\* a pass that updates the tree before it deletes from it
FoldConfigCreateFirst(tree, owned, monitored) ==
    TreeDelete(TreeUpdate(tree, ConfigCreate(owned, monitored)),
               ConfigDelete(owned, monitored))

FoldConfig(tree, owned, monitored) ==
    TreeUpdate(TreeDelete(tree, ConfigDelete(owned, monitored)),
               ConfigCreate(owned, monitored))

\* the config pass deletes its delete bucket from the operational tree, the
\* operational pass comes after it
FoldOperational(tree, owned, monitored) ==
    TreeUpdate(TreeDelete(TreeDelete(tree, ConfigDelete(owned, monitored)),
                          OperationalDelete(owned, monitored)),
               OperationalCreate(owned, monitored))

\* for tree in (monitored_tree, config_tree, operational_tree)
TreeOrder == <<"monitored", "config", "operational">>

\* modified: tree['delete'] or tree['create'] holds an object
Modified(kind, owned, monitored) ==
    CASE kind = "monitored" ->
            MonitoredDelete(monitored) \o MonitoredCreate(monitored) # <<>>
      [] kind = "config" ->
            ConfigDelete(owned, monitored) \o ConfigCreate(owned, monitored)
               # <<>>
      [] OTHER ->
            OperationalDelete(owned, monitored)
               \o OperationalCreate(owned, monitored) # <<>>

\* if modified: event_handler.EventHandler.reconcile(), in each pass of the
\* loop: the calls in order, each with the tree it follows and the trees
\* of the batch that the loop has still to update
reconcile(owned, monitored) ==
    LET calls == {n \in 1..3 : Modified(TreeOrder[n], owned, monitored)}
        passes == SelectIdx(<<1, 2, 3>>, calls, 1)
    IN  [i \in 1..Len(passes) |->
            [after |-> TreeOrder[passes[i]],
             pending |-> {TreeOrder[n] : n \in {m \in calls :
                                                  m > passes[i]}}]]

----------------------------------------------------------------------------
(* Bounds of the model.                                                     *)

MaxEvents == 2      \* events the Fabric queues on its own before a drain
MaxBacklog == 2     \* requests waiting in object_backlog
IdRange == 4        \* request numbers are counted modulo IdRange

CREATE == "create"
DELETE == "delete"

\* the Model object and the ACI object the reconciler pushes for the BD
AimBD == [dn |-> BD, aci_mo_name |-> BD_KEY, monitored |-> FALSE,
          pre_existing |-> FALSE]
AciBD == [klass |-> BD_KEY, attributes |-> [dn |-> BD]]

\* the requests ({method: [objects]}, in iteration order) a caller enqueues
Requests ==
    { <<[method |-> CREATE, objects |-> <<AimBD>>]>>,
      <<[method |-> DELETE, objects |-> <<AciBD>>]>>,
      <<[method |-> CREATE, objects |-> <<AimBD>>],
        [method |-> DELETE, objects |-> <<AciBD>>]>> }

NoPush == [method |-> None]

----------------------------------------------------------------------------
(* The Fabric: what it announces on the subscription.                       *)

\* what a change of the Fabric leaves alone: all that the worker holds
worker_state == <<pc, events, owned_events, monitored_events, drained_from,
                  had_reset, state, operational_state, monitored_state,
                  tag_set, object_backlog, request, next_id, last_get,
                  last_push, sync_state, count, warm,
                  snapshot, aid_state, tenant, reconcile_calls, shared>>

Notify(evs) == IF subscribed THEN ws_events \o evs ELSE ws_events

StatusEvent(dn, status) ==
    [klass |-> KlassOf(dn), attributes |-> [dn |-> dn, status |-> status]]

FaultEvent(status, severity) ==
    [klass |-> FAULT_KEY,
     attributes |-> [dn |-> FLT, code |-> Last(FLT)[2], status |-> status,
                     severity |-> severity]]

\* the answer to the subscription query: every MO of the subtree, the
\* faults as children of their object (rsp-subtree-include=faults)
SnapshotOf(dn) ==
    IF dn = BD /\ apic[FLT] # "absent"
    THEN [klass |-> BD_KEY, attributes |-> [dn |-> BD],
          children |-> <<[klass |-> FAULT_KEY,
                          attributes |-> [code |-> Last(FLT)[2],
                                          severity |->
                                            MoData(FLT).attributes.severity]
                         ]>>]
    ELSE MoData(dn)

Snapshot ==
    LET live == SelectIdx(MoOrder, {i \in 1..Len(MoOrder) :
                    /\ apic[MoOrder[i]] # "absent"
                    /\ KlassOf(MoOrder[i]) # FAULT_KEY}, 1)
    IN  [i \in 1..Len(live) |-> SnapshotOf(live[i])]

\* deleting an MO deletes the subtree below it
Without(dn) == [m \in MoDns |-> IF IsPrefix(dn, m) THEN "absent" ELSE apic[m]]

AdminCreate ==
    /\ apic[BD] = "absent"
    /\ Len(ws_events) < MaxEvents
    /\ apic' = [apic EXCEPT ![BD] = "present"]
    /\ ws_events' = Notify(<<StatusEvent(BD, "created")>>)
    /\ UNCHANGED <<subscribed, worker_state>>

\* an attribute of the tenant changes
AdminModify ==
    /\ subscribed
    /\ Len(ws_events) < MaxEvents
    /\ ws_events' = Notify(<<StatusEvent(TN, "modified")>>)
    /\ UNCHANGED <<apic, subscribed, worker_state>>

\* another agent of the same system (or this worker, earlier) pushes the BD:
\* the object and its tag are created in one transaction
PeerCreate ==
    /\ Len(ws_events) < MaxEvents
    /\ apic' = [apic EXCEPT ![BD] = "present", ![TagDn(BD)] = "present"]
    /\ ws_events' = Notify(<<StatusEvent(BD, "created"),
                             StatusEvent(TagDn(BD), "created")>>)
    /\ UNCHANGED <<subscribed, worker_state>>

AdminDelete ==
    /\ apic[BD] # "absent"
    /\ Len(ws_events) < MaxEvents
    /\ apic' = Without(BD)
    /\ ws_events' = Notify(<<StatusEvent(BD, DELETED_STATUS)>>)
    /\ UNCHANGED <<subscribed, worker_state>>

AdminUntag ==
    /\ apic[TagDn(BD)] # "absent"
    /\ Len(ws_events) < MaxEvents
    /\ apic' = [apic EXCEPT ![TagDn(BD)] = "absent"]
    /\ ws_events' = Notify(<<StatusEvent(TagDn(BD), DELETED_STATUS)>>)
    /\ UNCHANGED <<subscribed, worker_state>>

FaultRaise ==
    /\ apic[BD] # "absent"
    /\ apic[FLT] # "present"
    /\ Len(ws_events) < MaxEvents
    /\ ws_events' = Notify(<<FaultEvent(IF apic[FLT] = "absent"
                                        THEN "created" ELSE "modified",
                                        "minor")>>)
    /\ apic' = [apic EXCEPT ![FLT] = "present"]
    /\ UNCHANGED <<subscribed, worker_state>>

FaultClear ==
    /\ apic[FLT] = "present"
    /\ Len(ws_events) < MaxEvents
    /\ apic' = [apic EXCEPT ![FLT] = "cleared"]
    /\ ws_events' = Notify(<<FaultEvent("modified", CLEARED_SEVERITY)>>)
    /\ UNCHANGED <<subscribed, worker_state>>

FaultExpire ==
    /\ apic[FLT] = "cleared"
    /\ Len(ws_events) < MaxEvents
    /\ apic' = [apic EXCEPT ![FLT] = "absent"]
    /\ ws_events' = Notify(<<StatusEvent(FLT, DELETED_STATUS)>>)
    /\ UNCHANGED <<subscribed, worker_state>>

----------------------------------------------------------------------------
(* The caller side: AciTenantManager.push_aim_resources                     *)

push_aim_resources(resources) ==
    /\ Len(object_backlog) < MaxBacklog
    /\ Len(ws_events) < MaxEvents
    /\ object_backlog' = Append(object_backlog,
                                [id |-> next_id, resources |-> resources])
    /\ next_id' = (next_id + 1) % IdRange
    /\ UNCHANGED <<apic, subscribed, ws_events, pc, events, owned_events,
                   monitored_events, drained_from, had_reset, state,
                   operational_state, monitored_state, tag_set, request,
                   last_get, last_push, count, warm,
                   snapshot, aid_state, tenant, reconcile_calls, shared>>

\* a caller that pushes whatever it likes
Caller ==
    /\ \E resources \in Requests : push_aim_resources(resources)
    /\ UNCHANGED sync_state

----------------------------------------------------------------------------
(* The worker: _main_loop and _event_loop, one action per step between two  *)
(* points where the greenlet can be switched out.                           *)

\* a subscription that is followed by the drain of the events
SubscribeThenDrain ==
    /\ pc = "subscribe"
    /\ subscribed' = TRUE
    /\ tenant' = [tenant EXCEPT
                     !.url = _get_instance_subscription_urls(tenant)[1]]
    /\ ws_events' = IF subscribed THEN ws_events ELSE ws_events \o Snapshot
    /\ pc' = "drain"
    /\ UNCHANGED <<apic, events, owned_events, monitored_events, drained_from,
                   had_reset, state, operational_state, monitored_state,
                   tag_set, object_backlog, request, next_id, last_get,
                   last_push>>
    /\ UNCHANGED sync_state
    /\ UNCHANGED <<count, warm, snapshot, aid_state, reconcile_calls, shared>>

\* _subscribe_tenant: subscribes unless the session is subscribed already
Subscribe ==
    /\ pc = "subscribe"
    /\ subscribed' = TRUE
    /\ tenant' = [tenant EXCEPT
                     !.url = _get_instance_subscription_urls(tenant)[1]]
    /\ ws_events' = IF subscribed THEN ws_events ELSE ws_events \o Snapshot
    /\ pc' = "push"
    /\ UNCHANGED <<apic, events, owned_events, monitored_events, drained_from,
                   had_reset, state, operational_state, monitored_state,
                   tag_set, object_backlog, request, next_id, last_get,
                   last_push>>
    /\ UNCHANGED sync_state
    /\ UNCHANGED <<count, warm, snapshot, aid_state, reconcile_calls, shared>>

RECURSIVE Attempts(_)
\* for method, aim_objects in request.iteritems(): for aim_object in ...
Attempts(resources) ==
    IF resources = <<>> THEN <<>>
    ELSE [i \in 1..Len(Head(resources).objects) |->
             [method |-> Head(resources).method,
              aim_object |-> Head(resources).objects[i]]]
         \o Attempts(Tail(resources))

\* a queue that hands out its newest item
QueueGetNewest(queue) == [item |-> Last(queue), rest |-> Front(queue)]

\* Queue.Queue.get(): the oldest item and the queue without it
QueueGet(queue) == [item |-> Head(queue), rest |-> Tail(queue)]

\* while not self.object_backlog.empty(): request = self.object_backlog.get()
PushGet ==
    /\ pc = "push"
    /\ request = <<>>
    /\ IF object_backlog = <<>>
       THEN /\ pc' = "drain"
            /\ UNCHANGED <<object_backlog, request, last_get>>
       ELSE /\ request' = Attempts(QueueGet(object_backlog).item.resources)
            /\ last_get' = QueueGet(object_backlog).item.id
            /\ object_backlog' = QueueGet(object_backlog).rest
            /\ pc' = pc
    /\ UNCHANGED <<apic, subscribed, ws_events, events, owned_events,
                   monitored_events, drained_from, had_reset, state,
                   operational_state, monitored_state, tag_set, next_id,
                   last_push>>
    /\ UNCHANGED sync_state
    /\ UNCHANGED <<count, warm, snapshot, aid_state, tenant, reconcile_calls,
                   shared>>

PushedDn(attempt) ==
    IF attempt.method = DELETE THEN Dn(attempt.aim_object)
    ELSE attempt.aim_object.dn

\* a tag that is attached to the first MO of a conversion only
tagsOfFirst(attempt) ==
    IF attempt.method = CREATE
    THEN <<[klass |-> TAG_KEY,
            attributes |-> [dn |-> TagDn(attempt.aim_object.dn)]]>>
    ELSE <<>>

\* one transaction for each MO and each tag
CallsPerMo(attempt) ==
    IF attempt.method = CREATE
    THEN [i \in 1..Len(convert(attempt.aim_object)) |->
             [verb |-> "POST",
              mos |-> <<convert(attempt.aim_object)[i],
                        [klass |-> TAG_KEY,
                         attributes |->
                           [dn |-> TagDn(Dn(convert(attempt.aim_object)[i]))]
                        ]>>]]
    ELSE <<[verb |-> "DELETE", mos |-> <<attempt.aim_object>>]>>

\* to_push: a deep copy of the ACI object to delete, or the conversion of
\* the Model object to create
\* a push that leaves the flags of the object as they are
AsGiven(aim_object) == aim_object

\* lines 328-332: when pushing, a monitored object is treated as
\* pre-existing; the flags are set on the object of the request itself
AsPreExisting(aim_object) ==
    IF aim_object.monitored
    THEN [aim_object EXCEPT !.monitored = FALSE, !.pre_existing = TRUE]
    ELSE aim_object

\* the object of the attempt as the converter and the callbacks get it
Converted(attempt) ==
    IF attempt.method = DELETE THEN attempt.aim_object
    ELSE AsPreExisting(attempt.aim_object)

to_push(attempt) ==
    IF attempt.method = DELETE THEN <<attempt.aim_object>>
    ELSE convert(Converted(attempt))

\* tags: for a create, one tagInst at <dn>/tag-<tag_name> for each obj
push_tags(attempt) ==
    IF attempt.method = CREATE
    THEN [i \in 1..Len(to_push(attempt)) |->
             [klass |-> TAG_KEY,
              attributes |-> [dn |-> TagDn(Dn(to_push(attempt)[i]))]]]
    ELSE <<>>

\* the requests sent to the Fabric for one aim_object: a create is one
\* transaction (top_send) of to_push + tags, a delete one DELETE for each
\* obj of to_push + tags
Calls(attempt) ==
    IF attempt.method = CREATE
    THEN <<[verb |-> "POST", mos |-> to_push(attempt) \o push_tags(attempt)]>>
    ELSE [i \in 1..Len(to_push(attempt) \o push_tags(attempt)) |->
             [verb |-> "DELETE",
              mos |-> <<(to_push(attempt) \o push_tags(attempt))[i]>>]]

\* the DNs the Fabric is sent by an attempt
SentDns(attempt) ==
    UNION {{Dn(Calls(attempt)[i].mos[j]) :
               j \in 1..Len(Calls(attempt)[i].mos)} :
           i \in 1..Len(Calls(attempt))}

\* the Fabric after a successful push, and what it announces.  The Fabric
\* of the model follows the MOs of MoDns; it accepts any other MO.
Applied(attempt) ==
    IF attempt.method = CREATE
    THEN [m \in MoDns |->
             IF m \in SentDns(attempt) THEN "present" ELSE apic[m]]
    ELSE [m \in MoDns |->
             IF \E d \in SentDns(attempt) : IsPrefix(d, m) THEN "absent"
             ELSE apic[m]]

Announced(attempt) ==
    LET known == SelectIdx(MoOrder, {i \in 1..Len(MoOrder) :
                               MoOrder[i] \in SentDns(attempt)}, 1)
    IN  IF attempt.method = CREATE
        THEN [i \in 1..Len(known) |-> StatusEvent(known[i], "created")]
        ELSE SelectIdx([i \in 1..Len(known) |->
                           StatusEvent(known[i], DELETED_STATUS)],
                       {i \in 1..Len(known) : apic[known[i]] # "absent"}, 1)

\* the callbacks of lines 369-382 for an attempt that ended with 'outcome'
Callbacks(attempt, outcome) ==
    [id |-> last_get, method |-> attempt.method, dn |-> PushedDn(attempt),
     pushed |-> attempt.aim_object, converted |-> Converted(attempt),
     calls |-> Calls(attempt), outcome |-> outcome,
     creation_succeeded |->
        IF outcome = "ok" /\ attempt.method = CREATE
        THEN <<Converted(attempt)>> ELSE <<>>,
     creation_failed |->
        IF outcome = "notok" /\ attempt.method = CREATE
        THEN <<Converted(attempt)>> ELSE <<>>]

\* one aim_object of the request is pushed and the Fabric accepts it
PushOk ==
    /\ pc = "push"
    /\ request # <<>>
    /\ apic' = Applied(Head(request))
    /\ ws_events' = Notify(Announced(Head(request)))
    /\ last_push' = Callbacks(Head(request), "ok")
    /\ request' = Tail(request)
    /\ UNCHANGED <<subscribed, pc, events, owned_events, monitored_events,
                   drained_from, had_reset, state, operational_state,
                   monitored_state, tag_set, object_backlog, next_id, last_get>>
    /\ UNCHANGED <<desired, sync_status, tracked>>
    /\ sync_phase' = IF /\ sync_phase = "enqueued"
                         /\ last_get = tracked
                         /\ Tail(request) = <<>>
                      THEN "applied" ELSE sync_phase
    /\ UNCHANGED <<count, warm, snapshot, aid_state, tenant, reconcile_calls,
                   shared>>

\* a failed object that stays in hand, to be attempted again
PushNotOkRetries ==
    /\ pc = "push"
    /\ request # <<>>
    /\ last_push' = Callbacks(Head(request), "notok")
    /\ UNCHANGED <<apic, subscribed, ws_events, pc, events, owned_events,
                   monitored_events, drained_from, had_reset, state,
                   operational_state, monitored_state, tag_set, object_backlog,
                   request, next_id, last_get>>
    /\ UNCHANGED <<desired, sync_status, tracked>>
    /\ sync_phase' = IF sync_phase # "none" /\ last_get = tracked
                      THEN "none" ELSE sync_phase
    /\ UNCHANGED <<count, warm, snapshot, aid_state, tenant, reconcile_calls,
                   shared>>

\* the Fabric answers with an error: apic_exc.ApicResponseNotOk
PushNotOk ==
    /\ pc = "push"
    /\ request # <<>>
    /\ last_push' = Callbacks(Head(request), "notok")
    /\ request' = Tail(request)
    /\ UNCHANGED <<apic, subscribed, ws_events, pc, events, owned_events,
                   monitored_events, drained_from, had_reset, state,
                   operational_state, monitored_state, tag_set, object_backlog,
                   next_id, last_get>>
    /\ UNCHANGED <<desired, sync_status, tracked>>
    /\ sync_phase' = IF sync_phase # "none" /\ last_get = tracked
                      THEN "none" ELSE sync_phase
    /\ UNCHANGED <<count, warm, snapshot, aid_state, tenant, reconcile_calls,
                   shared>>

\* any other exception (a timeout, a connection error) leaves
\* _push_aim_resources and _event_loop; _main_loop logs it and unsubscribes
PushRaises ==
    /\ pc = "push"
    /\ request # <<>>
    /\ last_push' = Callbacks(Head(request), "raised")
    /\ request' = <<>>
    /\ subscribed' = FALSE
    /\ pc' = "subscribe"
    /\ UNCHANGED <<apic, ws_events, events, owned_events, monitored_events,
                   drained_from, had_reset, state, operational_state,
                   monitored_state, tag_set, object_backlog, next_id, last_get>>
    /\ UNCHANGED <<desired, sync_status, tracked>>
    /\ sync_phase' = IF sync_phase # "none" /\ last_get = tracked
                      THEN "none" ELSE sync_phase
    /\ count' = 3
    /\ warm' = warm
    /\ UNCHANGED <<snapshot, aid_state, tenant, reconcile_calls, shared>>

\* no call of a get_*_copy method was made yet
NoSnapshot == [kind |-> "none", tree |-> EmptyTree, taken |-> EmptyTree,
               same |-> FALSE, changed |-> FALSE]

\* The tree object a reader holds, after a step of the worker.  An object of
\* the reader's own is as it was.  Were it the worker's own object
\* (same), it would show what the worker folds into it, until the root
\* reset binds self._state and self._operational_state to new trees.
Held(snap, reset, config, operational, monitored) ==
    IF ~snap.same THEN snap
    ELSE IF reset /\ snap.kind \in {"config", "operational"}
         THEN [snap EXCEPT !.same = FALSE]
         ELSE [snap EXCEPT !.tree = CASE snap.kind = "config" -> config
                                      [] snap.kind = "operational" ->
                                           operational
                                      [] OTHER -> monitored]

\* instance_has_event, instance_get_event_data, the root reset, flat_events
Drain ==
    /\ pc = "drain"
    /\ IF ws_events = <<>>
       THEN /\ pc' = "sleep"
            /\ UNCHANGED <<ws_events, events, drained_from, had_reset, state,
                           operational_state>>
       ELSE LET drained == instance_get_event_data(ws_events)
            IN  /\ ws_events' = <<>>
                /\ drained_from' = ws_events
                /\ had_reset' = NeedsReset(drained)
                /\ state' = IF NeedsReset(drained) THEN EmptyTree ELSE state
                /\ operational_state' = IF NeedsReset(drained) THEN EmptyTree
                                        ELSE operational_state
                /\ events' = flat_events(drained)
                /\ pc' = "fill"
    /\ UNCHANGED <<apic, subscribed, owned_events, monitored_events,
                   monitored_state, tag_set, object_backlog, request, next_id,
                   last_get, last_push>>
    /\ UNCHANGED <<desired, sync_status, tracked>>
    /\ sync_phase' = IF sync_phase = "applied" /\ ws_events = <<>>
                      THEN "observed" ELSE sync_phase
    /\ UNCHANGED <<count, warm>>
    /\ snapshot' = Held(snapshot, state' # state \/ had_reset',
                       state', operational_state', monitored_state')
    /\ UNCHANGED <<aid_state, tenant, reconcile_calls, shared>>

\* the event needs a request to the Fabric
NeedsFetch(event) ==
    /\ Get(event.attributes, STATUS_FIELD) # DELETED_STATUS
    /\ \/ Truthy(Get(event.attributes, STATUS_FIELD))
       \/ event.klass \in OPERATIONAL_LIST
    /\ event.klass \in resource_map

\* _fill_events
Fill ==
    /\ pc = "fill"
    /\ \E missing \in [1..Len(events) -> {"404", "empty"}] :
          events' = retrieve_aci_objects(events, missing)
    /\ drained_from' = <<>>
    /\ pc' = "filter"
    /\ UNCHANGED <<apic, subscribed, ws_events, owned_events,
                   monitored_events, had_reset, state, operational_state,
                   monitored_state, tag_set, object_backlog, request,
                   next_id, last_get, last_push>>
    /\ UNCHANGED sync_state
    /\ UNCHANGED <<count, warm, snapshot, aid_state, tenant, reconcile_calls,
                   shared>>

\* a handler of the error that leaves the subscription in place
FillRaisesSubscribed ==
    /\ pc = "fill"
    /\ \E i \in 1..Len(events) : NeedsFetch(events[i])
    /\ events' = <<>>
    /\ drained_from' = <<>>
    /\ had_reset' = FALSE
    /\ pc' = "subscribe"
    /\ UNCHANGED <<apic, subscribed, ws_events, owned_events,
                   monitored_events, state, operational_state,
                   monitored_state, tag_set, object_backlog, request,
                   next_id, last_get, last_push>>
    /\ UNCHANGED sync_state
    /\ count' = 3
    /\ warm' = warm
    /\ UNCHANGED <<snapshot, aid_state, tenant, reconcile_calls, shared>>

\* a Fabric error other than 404 is raised again and leaves the loop
FillRaises ==
    /\ pc = "fill"
    /\ \E i \in 1..Len(events) : NeedsFetch(events[i])
    /\ events' = <<>>
    /\ drained_from' = <<>>
    /\ had_reset' = FALSE
    /\ subscribed' = FALSE
    /\ pc' = "subscribe"
    /\ UNCHANGED <<apic, ws_events, owned_events, monitored_events, state,
                   operational_state, monitored_state, tag_set,
                   object_backlog, request, next_id, last_get, last_push>>
    /\ UNCHANGED sync_state
    /\ count' = 3
    /\ warm' = warm
    /\ UNCHANGED <<snapshot, aid_state, tenant, reconcile_calls, shared>>

\* owned, monitored = self._filter_ownership(events)
Filter ==
    /\ pc = "filter"
    /\ LET f == _filter_ownership(events, tag_set)
       IN  /\ tag_set' = f.tag_set
           /\ owned_events' = f.owned
           /\ monitored_events' = f.monitored
    /\ pc' = "fold"
    /\ UNCHANGED <<apic, subscribed, ws_events, events, drained_from,
                   had_reset, state, operational_state, monitored_state,
                   object_backlog, request, next_id, last_get, last_push>>
    /\ UNCHANGED sync_state
    /\ UNCHANGED <<count, warm, snapshot, aid_state, tenant, reconcile_calls,
                   shared>>

\* self._event_to_tree(owned, monitored)
Fold ==
    /\ pc = "fold"
    /\ tag_set' = DiscardDeleted(owned_events \o monitored_events, tag_set)
    /\ monitored_state' = FoldMonitored(monitored_state, monitored_events)
    /\ state' = FoldConfig(state, owned_events, monitored_events)
    /\ operational_state' =
          FoldOperational(operational_state, owned_events,
                          monitored_events)
    /\ events' = <<>>
    /\ owned_events' = <<>>
    /\ monitored_events' = <<>>
    /\ had_reset' = FALSE
    /\ pc' = "sleep"
    /\ UNCHANGED <<apic, subscribed, ws_events, drained_from,
                   object_backlog, request,
                   next_id, last_get, last_push>>
    /\ UNCHANGED <<desired, sync_status, tracked>>
    /\ sync_phase' = IF sync_phase = "applied" /\ ws_events = <<>>
                      THEN "observed" ELSE sync_phase
    /\ UNCHANGED <<count, warm>>
    /\ snapshot' = Held(snapshot, FALSE, state', operational_state',
                       monitored_state')
    /\ UNCHANGED <<aid_state, tenant>>
    /\ reconcile_calls' = reconcile(owned_events, monitored_events)
    /\ UNCHANGED shared

\* a warm bit that is set one iteration earlier
warm_afterEarly(c, w) == w \/ c = 1

\* _main_loop, lines 239-245: if count == 0: self._warm = True; count -= 1
\* elif count > 0: count -= 1
count_after(c) == IF c >= 0 THEN c - 1 ELSE c
warm_after(c, w) == w \/ c = 0

\* gevent.sleep: the other greenlets run, then the next iteration starts
Yield ==
    /\ pc = "sleep"
    /\ pc' = "subscribe"
    /\ UNCHANGED <<apic, subscribed, ws_events, events, owned_events,
                   monitored_events, drained_from, had_reset, state,
                   operational_state, monitored_state, tag_set, object_backlog,
                   request, next_id, last_get, last_push>>
    /\ UNCHANGED sync_state
    /\ count' = count_after(count)
    /\ warm' = warm_after(count, warm)
    /\ UNCHANGED <<snapshot, aid_state, tenant>>
    /\ reconcile_calls' = <<>>
    /\ UNCHANGED shared

----------------------------------------------------------------------------

\* no operation was repeated yet; the limits are those of the configuration
NoAction == [reset_retry_limit |-> 0, purge_retry_limit |-> 0,
             entry |-> <<>>, yielded |-> 0, pushed |-> <<>>, reset |-> {}]

\* no push of the object has failed
NoFailures == [max_operation_retry |-> 0, retries |-> 0, met |-> <<>>,
               harakiri |-> FALSE]

\* no agent is registered and no root is known
NoAgents == [peers |-> <<>>, roots |-> {}, place |-> <<>>,
             single_aid |-> FALSE, served |-> <<>>]

\* an agent that has not reconciled yet
InitAid ==
    /\ action_cache = NoAction
    /\ failures = NoFailures
    /\ agents = NoAgents

\* no session is shared: the worker of the model is the only one
NoPeers == <<>>

\* the state after construction (__init__), over a Fabric and a subscription
InitWorker(fabric, queue, position, target) ==
    /\ tenant = target
    /\ reconcile_calls = <<>>
    /\ apic = fabric
    /\ subscribed = (position # "subscribe")
    /\ ws_events = queue
    /\ pc = position
    /\ events = <<>>
    /\ owned_events = <<>>
    /\ monitored_events = <<>>
    /\ drained_from = <<>>
    /\ had_reset = FALSE
    /\ state = EmptyTree
    /\ operational_state = EmptyTree
    /\ monitored_state = EmptyTree
    /\ tag_set = {}
    /\ object_backlog = <<>>
    /\ request = <<>>
    /\ next_id = 0
    /\ last_get = IdRange - 1
    /\ last_push = NoPush
    /\ desired = {}
    /\ sync_status = "none"
    /\ tracked = None
    /\ sync_phase = "none"
    /\ count = 3
    /\ warm = FALSE
    /\ snapshot = NoSnapshot

InitOf(fabric, queue, position, target) ==
    /\ InitWorker(fabric, queue, position, target)
    /\ session = NoPeers
    /\ managers = NoPeers

\* the worker of the tenant t
InitWith(fabric, queue, position) ==
    InitOf(fabric, queue, position,
           Tenant(tenant_name, <<TENANT_KEY, BD_KEY, TAG_KEY>>))

\* a Fabric that holds the tenant and nothing below it
BareFabric == [m \in MoDns |-> IF m = TN THEN "present" ELSE "absent"]

Init == InitWith(BareFabric, <<>>, "subscribe") /\ InitAid

Fabric ==
    \/ AdminCreate
    \/ AdminModify
    \/ PeerCreate
    \/ AdminDelete
    \/ AdminUntag
    \/ FaultRaise
    \/ FaultClear
    \/ FaultExpire

Worker ==
    \/ Subscribe
    \/ PushGet
    \/ PushOk
    \/ PushNotOk
    \/ PushRaises
    \/ Drain
    \/ Fill
    \/ FillRaises
    \/ Filter
    \/ Fold
    \/ Yield

Next ==
    \/ Fabric
    \/ Worker
    \/ Caller

Spec == Init /\ [][Next]_vars

\* the observing side alone: the Fabric changes, nothing is pushed
NextEvents ==
    \/ Fabric
    \/ Subscribe
    \/ PushGet
    \/ Drain
    \/ Fill
    \/ FillRaises
    \/ Filter
    \/ Fold
    \/ Yield

SpecEvents == Init /\ [][NextEvents]_vars

\* the pushing side alone: the Fabric changes by the worker's pushes only
NextPush ==
    \/ Worker
    \/ Caller

SpecPush == Init /\ [][NextPush]_vars

----------------------------------------------------------------------------
(* The reconciler, for one root and one pair of universes: the diff of the  *)
(* worker's configuration tree against the desired one, pushed to the       *)
(* worker, and the sync status it reports.  Intent changes the desired      *)
(* configuration.                                                           *)

\* the desired configuration tree: owned objects, as Intent holds them
DesiredTree ==
    [d \in desired |-> [monitored |-> FALSE, pre_existing |-> FALSE]]

\* what must be created and deleted to turn current into wanted; an object
\* that is pre_existing in current is never deleted
Diff(current, wanted) ==
    [create |-> {d \in DOMAIN wanted :
                    d \notin DOMAIN current \/ current[d] # wanted[d]},
     delete |-> {d \in DOMAIN current :
                    ~current[d].pre_existing /\ d \notin DOMAIN wanted}]

InSync(current, wanted) ==
    Diff(current, wanted).create = {} /\ Diff(current, wanted).delete = {}

RECURSIVE SeqOf(_)
SeqOf(S) ==
    IF S = {} THEN <<>>
    ELSE LET d == CHOOSE x \in S : \A y \in S : Len(x) <= Len(y)
         IN  <<d>> \o SeqOf(S \ {d})

ModelOf(dn) == [dn |-> dn, aci_mo_name |-> KlassOf(dn),
                monitored |-> FALSE, pre_existing |-> FALSE]

ModelsOf(dns) == [i \in 1..Len(dns) |-> ModelOf(dns[i])]

\* the {method: [objects]} request of a diff
BatchOf(diff) ==
    (IF diff.create = {} THEN <<>>
     ELSE <<[method |-> CREATE,
             objects |-> ModelsOf(SeqOf(diff.create))]>>)
    \o (IF diff.delete = {} THEN <<>>
        ELSE <<[method |-> DELETE,
                objects |-> ToAci(ModelsOf(SeqOf(diff.delete)))]>>)

StatusOf(current, wanted) ==
    IF BD \notin DOMAIN wanted THEN "none"
    ELSE IF BD \in Diff(current, wanted).create THEN "PENDING"
    ELSE "SYNCED"

\* one tick: observe, diff, push the diff if there is one, report status
Reconcile ==
    /\ IF InSync(state, DesiredTree)
       THEN UNCHANGED <<object_backlog, next_id, tracked, sync_phase, apic,
                        subscribed, ws_events, pc, events, owned_events,
                        monitored_events, drained_from, had_reset, state,
                        operational_state, monitored_state, tag_set,
                        request, last_get, last_push, count, warm,
                        snapshot, aid_state, tenant, reconcile_calls, shared>>
       ELSE /\ push_aim_resources(BatchOf(Diff(state, DesiredTree)))
            /\ tracked' = next_id
            /\ sync_phase' = "enqueued"
    /\ sync_status' = StatusOf(state, DesiredTree)
    /\ desired' = desired

\* Intent adds the BD to the desired configuration or removes it from it
Intent ==
    /\ desired' = IF BD \in desired THEN desired \ {BD}
                  ELSE desired \cup {BD}
    /\ sync_status' = IF BD \in desired THEN "none" ELSE "PENDING"
    /\ sync_phase' = "none"
    /\ UNCHANGED <<tracked, apic, subscribed, ws_events, pc, events,
                   owned_events, monitored_events, drained_from, had_reset,
                   state, operational_state, monitored_state, tag_set,
                   object_backlog, request, next_id, last_get, last_push,
                   count, warm,
                   snapshot, aid_state, tenant, reconcile_calls, shared>>

NextSync ==
    \/ Worker
    \/ Reconcile
    \/ Intent

\* the agent starts on a Fabric where the BD may exist already, made by hand
InitSync ==
    /\ InitAid
    /\ \E made \in {"absent", "present"} :
          InitWith([BareFabric EXCEPT ![BD] = made], <<>>, "subscribe")

SpecSync == InitSync /\ [][NextSync]_vars

\* the request of the last diff was pushed for the desired configuration
\* of now, the Fabric applied it and the worker folded what it announced
Converged == sync_phase = "observed"

\* C1: once the request of a diff has been pushed, applied by the Fabric
\* and observed by the worker, the diff of the configuration tree against
\* the desired tree is empty, no step enqueues a request, and the status
\* that a tick reports for the pushed object is SYNCED.
C1_DiffIsAFixedPoint ==
    [][/\ Converged' => InSync(state', DesiredTree')
       /\ Converged => Len(object_backlog') <= Len(object_backlog)
       /\ (Converged /\ Converged' /\ sync_status' # sync_status) =>
              (BD \in desired /\ sync_status' = "SYNCED")
      ]_vars

\* the BD was pushed, observed, and a tick has found it in sync
C1_Witness ==
    /\ Converged
    /\ BD \in desired
    /\ BD \in DOMAIN state
    /\ ~state[BD].pre_existing
    /\ sync_status = "SYNCED"
    /\ object_backlog = <<>>

\* the BD was deleted on request, and the worker has seen it go
C1_WitnessDelete ==
    /\ Converged
    /\ desired = {}
    /\ last_push # NoPush
    /\ last_push.method = DELETE
    /\ BD \notin DOMAIN state
    /\ TN \in DOMAIN state

----------------------------------------------------------------------------
(* Properties of the observing side, checked under SpecEvents.              *)

\* the objects of the tenant that carry this system's tag at times
Taggable == {d \in MoDns : TagDn(d) \in MoDns}

\* a batch has been folded and nothing waits in the subscription
Settled == pc = "sleep" /\ subscribed /\ ws_events = <<>>

\* C2: after every processed batch, a DN is in tag_set exactly when this
\* system's tag exists below it: it has been observed and not been deleted,
\* also across a root reset and across the deletion of the object itself.
C2_TagSetIsTheObservedTags ==
    Settled => \A d \in Taggable :
                  d \in tag_set <=> apic[TagDn(d)] # "absent"

\* a settled worker holds the BD as tagged and the Fabric holds no tag
C2_Witness ==
    /\ Settled
    /\ BD \in tag_set
    /\ apic[TagDn(BD)] = "absent"

\* C3: after every folded batch, an object is pre_existing in the config
\* tree exactly when it is in the monitored tree, and no object of the
\* monitored tree is held as owned by the config tree.
C3_PreExistingIffMonitored ==
    pc = "sleep" =>
        \A d \in MoDns :
            /\ (d \in DOMAIN state /\ state[d].pre_existing)
                   <=> d \in DOMAIN monitored_state
            /\ ~(/\ d \in DOMAIN monitored_state
                 /\ d \in DOMAIN state
                 /\ ~state[d].pre_existing)

\* an object of the monitored tree that the config tree holds as owned
C3_Witness ==
    /\ pc = "sleep"
    /\ BD \in DOMAIN monitored_state
    /\ BD \in DOMAIN state
    /\ ~state[BD].pre_existing

\* a root object announced without status: the answer to a subscription
RootWithoutStatus(event) ==
    /\ event.klass \in {"fvTenant", "infraInfra"}
    /\ "status" \notin DOMAIN event.attributes

HasRootWithoutStatus(evs) ==
    \E i \in 1..Len(evs) : RootWithoutStatus(evs[i])

\* C6: the drain of a batch that holds a root object without status leaves
\* the config tree and the operational tree empty, the drain of any other
\* batch leaves them as they were, and nothing touches the two trees
\* between the drain and the fold of the batch.
C6_RootReset ==
    [][/\ (pc = "drain" /\ pc' = "fill") =>
            IF HasRootWithoutStatus(instance_get_event_data(ws_events))
            THEN state' = EmptyTree /\ operational_state' = EmptyTree
            ELSE state' = state /\ operational_state' = operational_state
       /\ pc \in {"fill", "filter"} =>
            state' = state /\ operational_state' = operational_state
      ]_vars

\* a resync is in hand, the config tree is empty, and the worker had trees
\* before: the monitored tree, which is not reset, still holds the BD
C6_Witness ==
    /\ pc = "fill"
    /\ HasRootWithoutStatus(events)
    /\ state = EmptyTree
    /\ operational_state = EmptyTree
    /\ BD \in DOMAIN monitored_state

IsFaultDn(dn) == Last(dn)[1] = "fault"

\* C7: a fold puts the faults of its batch, owned or monitored, in the
\* operational tree and in no other tree, and the operational tree never
\* holds anything but faults.
C7_FaultRouting ==
    [][(pc = "fold" /\ pc' = "sleep") =>
        /\ \A i \in 1..Len(owned_events \o monitored_events) :
              LET event == (owned_events \o monitored_events)[i]
              IN  (event.klass = "faultInst" /\ ~_is_deleting(event)) =>
                      Dn(event) \in DOMAIN operational_state'
        /\ \A d \in DOMAIN state' \cup DOMAIN monitored_state' :
              ~IsFaultDn(d)
        /\ \A d \in DOMAIN operational_state' : IsFaultDn(d)
      ]_vars

\* the fault of an owned BD is in the operational tree, the BD in the
\* config tree
C7_Witness ==
    /\ FLT \in DOMAIN operational_state
    /\ BD \in DOMAIN state
    /\ BD \in tag_set

\* C8: a fold that deletes an object from the config tree leaves no fault
\* below the object's DN in the operational tree, also when the batch holds
\* a fault of the object.
C8_FaultsDoNotOutliveObject ==
    [][(pc = "fold" /\ pc' = "sleep") =>
        \A i \in 1..Len(owned_events) :
            (/\ owned_events[i].klass # "faultInst"
             /\ _is_deleting(owned_events[i])
             /\ Dn(owned_events[i]) \in DOMAIN state
             /\ Dn(owned_events[i]) \notin DOMAIN state') =>
                \A d \in DOMAIN operational_state' :
                    ~IsPrefix(Dn(owned_events[i]), d)
      ]_vars

----------------------------------------------------------------------------
(* The ownership filter, checked on the Filter step of SpecEvents.          *)

\* the DN that decides the ownership of an event
OwnerDn(event) ==
    IF event.klass \in {"faultInst", "tagInst"} THEN Front(Dn(event))
    ELSE Dn(event)

IsOwnTag(event) ==
    event.klass = "tagInst" /\ Last(Dn(event)) = <<"tag", tag_name>>

\* tag_set after the tag events of evs: the last tag event of P decides
TagsAfter(evs, tags) ==
    {P \in tags \cup {Front(Dn(evs[i])) : i \in 1..Len(evs)} :
        LET mine == {i \in 1..Len(evs) :
                        IsOwnTag(evs[i]) /\ Front(Dn(evs[i])) = P}
        IN  IF mine = {} THEN P \in tags
            ELSE ~_is_deleting(evs[CHOOSE i \in mine :
                                      \A j \in mine : j <= i])}

\* C4, as claimed: the filter updates tag_set from the tag events of the
\* batch and returns as owned exactly the events, other than tags, that are
\* not deleted and whose DN (parent DN for a fault) is in tag_set.
C4_OwnedAreTheTaggedNotDeleted ==
    [][(pc = "filter" /\ pc' = "fold") =>
        /\ tag_set' = TagsAfter(events, tag_set)
        /\ owned_events' =
              SelectIdx(events, {i \in 1..Len(events) :
                  /\ events[i].klass # "tagInst"
                  /\ ~_is_deleting(events[i])
                  /\ OwnerDn(events[i]) \in tag_set'}, 1)
      ]_vars

\* C4, amended: the filter updates tag_set from the tag events of the
\* batch and returns as owned exactly the events, other than tags, that are
\* deleted or whose DN (parent DN for a fault) is in tag_set, in the order
\* of the batch; a deleted event is returned as owned and as monitored
\* whatever tag_set holds.
C4_OwnedAreTheTaggedOrDeleted ==
    [][(pc = "filter" /\ pc' = "fold") =>
        /\ tag_set' = TagsAfter(events, tag_set)
        /\ owned_events' =
              SelectIdx(events, {i \in 1..Len(events) :
                  /\ events[i].klass # "tagInst"
                  /\ \/ _is_deleting(events[i])
                     \/ OwnerDn(events[i]) \in tag_set'}, 1)
        /\ monitored_events' =
              SelectIdx(events, {i \in 1..Len(events) :
                  /\ events[i].klass # "tagInst"
                  /\ \/ _is_deleting(events[i])
                     \/ OwnerDn(events[i]) \notin tag_set'}, 1)
      ]_vars

\* the filter has returned as owned a deleted event of an untagged object,
\* next to the fault of no tagged object
C4_Witness ==
    /\ pc = "fold"
    /\ \E i \in 1..Len(owned_events) :
          /\ _is_deleting(owned_events[i])
          /\ OwnerDn(owned_events[i]) \notin tag_set

\* the tag is the last event of the batch and the BD before it is owned
C4_WitnessTagLast ==
    /\ pc = "fold"
    /\ Len(events) >= 2
    /\ IsOwnTag(events[Len(events)])
    /\ \E i \in 1..Len(owned_events) : Dn(owned_events[i]) = BD

----------------------------------------------------------------------------
(* The drain alone, on every short queue of pending events.                 *)

MaxQueue == 3       \* events pending in the subscription at a drain

BD2 == Append(TN, <<"BD", "c">>)

\* events of two classes on two DNs, with and without an attribute
PendingEvents ==
    {[klass |-> k, attributes |-> a] :
        k \in {"fvBD", "fvRsCtx"},
        a \in {[dn |-> d] : d \in {BD, BD2}}
              \cup {[dn |-> d, tnFvCtxName |-> v] :
                       d \in {BD, BD2}, v \in {"test", "test-2"}}}

RECURSIVE SeqsUpTo(_, _)
SeqsUpTo(S, n) ==
    IF n = 0 THEN {<<>>}
    ELSE LET shorter == SeqsUpTo(S, n - 1)
         IN  shorter \cup {Append(q, e) : q \in shorter, e \in S}

InitDrain ==
    /\ InitAid
    /\ \E queue \in SeqsUpTo(PendingEvents, MaxQueue) :
          InitWith(BareFabric, queue, "drain")

SpecDrain == InitDrain /\ [][Drain]_vars

Pair(event) == <<event.klass, Dn(event)>>
Occurrences(queue, pair) == {n \in 1..Len(queue) : Pair(queue[n]) = pair}
FirstOf(S) == CHOOSE n \in S : \A m \in S : n <= m
LatestOf(S) == CHOOSE n \in S : \A m \in S : m <= n

----------------------------------------------------------------------------
(* Properties of the pushing side, checked under SpecPush.                  *)

\* a step of the worker: it never makes the backlog longer, and every step
\* of a caller does
WorkerStep == Len(object_backlog') <= Len(object_backlog)

\* WF_vars(Worker), written out.  The loop is never blocked: Worker is
\* enabled in every state, and gevent runs the greenlet again after every
\* sleep, so weak fairness of the loop says that it takes a step again and
\* again.
WorkerRuns == []<><<WorkerStep>>_vars

SpecPushFair == SpecPush /\ WorkerRuns

Waiting(id) == \E i \in 1..Len(object_backlog) : object_backlog[i].id = id
Attempted(id) == last_push # NoPush /\ last_push.id = id

\* C9: a step that enqueues a request changes nothing but the backlog;
\* the requests leave the backlog in the order in which they entered it;
\* every request that waits in the backlog is attempted in the end.
C9_PushIsQueuedAndAttemptedInOrder ==
    /\ [][Len(object_backlog') > Len(object_backlog) =>
             /\ object_backlog' = Append(object_backlog,
                                         object_backlog'[Len(object_backlog')])
             /\ UNCHANGED <<apic, subscribed, ws_events, pc, request,
                            last_get, last_push, state, operational_state,
                            monitored_state, tag_set>>
         ]_vars
    /\ [][last_get' # last_get =>
             /\ last_get' = (last_get + 1) % IdRange
             /\ object_backlog # <<>>
             /\ object_backlog[1].id = last_get'
             /\ object_backlog' = Tail(object_backlog)
         ]_vars
    /\ \A id \in 0..(IdRange - 1) : Waiting(id) ~> Attempted(id)

\* two requests wait while an earlier one is attempted
C9_Witness ==
    /\ Len(object_backlog) = 2
    /\ request # <<>>
    /\ last_push # NoPush
    /\ last_get = (object_backlog[1].id + IdRange - 1) % IdRange

\* C10: every attempt to create an object ends with one callback: the
\* success callback with the object when the push succeeded, the failure
\* callback with the object when it failed, never both.
C10_OneCallbackPerAttempt ==
    (last_push # NoPush /\ last_push.method = CREATE) =>
        IF last_push.outcome = "ok"
        THEN /\ Len(last_push.creation_succeeded) = 1
             /\ last_push.creation_succeeded[1].dn = last_push.dn
             /\ last_push.creation_failed = <<>>
        ELSE /\ Len(last_push.creation_failed) = 1
             /\ last_push.creation_failed[1].dn = last_push.dn
             /\ last_push.creation_succeeded = <<>>

\* a create was attempted, it failed, and no callback was invoked
C10_Witness ==
    /\ last_push # NoPush
    /\ last_push.method = CREATE
    /\ last_push.outcome = "raised"
    /\ last_push.creation_succeeded = <<>>
    /\ last_push.creation_failed = <<>>

----------------------------------------------------------------------------
(* The requests of a push, checked under SpecSend: the worker with a caller *)
(* whose batches hold several Model objects, one of them a ContractSubject  *)
(* that converts to three MOs.                                              *)

SUBJ == TN \o <<<<"brc", "c">>, <<"subj", "s">>>>
AimSubj == [dn |-> SUBJ, aci_mo_name |-> SUBJ_KEY, monitored |-> FALSE,
            pre_existing |-> FALSE]
AciFilter == convert(AimSubj)[2]

SendRequests ==
    { <<[method |-> CREATE, objects |-> <<AimBD, AimSubj>>]>>,
      <<[method |-> DELETE, objects |-> <<AciBD, AciFilter>>]>>,
      <<[method |-> CREATE, objects |-> <<AimSubj>>],
        [method |-> DELETE, objects |-> <<AciBD>>]>> }

CallerSend ==
    /\ \E resources \in SendRequests : push_aim_resources(resources)
    /\ UNCHANGED sync_state

NextSend ==
    \/ Worker
    \/ CallerSend

SpecSend == Init /\ [][NextSend]_vars

\* a step that pushes one object of the request in hand
IsAttempt == pc = "push" /\ request # <<>> /\ request' # request

\* C11: a push that fails leaves the worker in its push step, with the
\* remaining objects of the request and the backlog behind it still to be
\* attempted, and with its subscription.
C11_FailedPushIsContained ==
    [][(IsAttempt /\ last_push'.outcome # "ok") =>
          /\ pc' = "push"
          /\ request' = Tail(request)
          /\ object_backlog' = object_backlog
          /\ subscribed' = subscribed
      ]_vars

\* a push has raised: the worker left the push step for a new subscription
\* while a request waits in the backlog
C11_Witness ==
    /\ last_push # NoPush
    /\ last_push.outcome = "raised"
    /\ pc = "subscribe"
    /\ ~subscribed
    /\ request = <<>>
    /\ object_backlog # <<>>

IsTag(mo) == mo.klass = "tagInst"
MosOf(call) == {call.mos[i] : i \in 1..Len(call.mos)}

C13_OneTransactionPerBatch ==
    [][(IsAttempt /\ Head(request).method = "create") =>
          /\ Len(last_push'.calls) = 1
          /\ \A k \in 1..Len(request) :
                request[k].method = "create" =>
                   \A i \in 1..Len(convert(request[k].aim_object)) :
                      convert(request[k].aim_object)[i]
                         \in MosOf(last_push'.calls[1])
      ]_vars

\* C13, amended: every Model object of a create batch is sent in one
\* transaction of its own, which holds the MOs of the conversion of that
\* object, their tags, and nothing else.
C13_OneTransactionPerObject ==
    [][(IsAttempt /\ Head(request).method = "create") =>
          /\ Len(last_push'.calls) = 1
          /\ last_push'.calls[1].verb = "POST"
          /\ last_push'.pushed = Head(request).aim_object
          /\ {mo \in MosOf(last_push'.calls[1]) : ~IsTag(mo)}
                = {convert(Head(request).aim_object)[i] :
                     i \in 1..Len(convert(Head(request).aim_object))}
          /\ {Dn(mo) : mo \in {m \in MosOf(last_push'.calls[1]) : IsTag(m)}}
                = {Append(Dn(convert(Head(request).aim_object)[i]),
                          <<"tag", tag_name>>) :
                     i \in 1..Len(convert(Head(request).aim_object))}
      ]_vars

\* the second Model object of a create batch of two has been pushed, after
\* the first, in a transaction of its own
C13_Witness ==
    /\ last_push # NoPush
    /\ last_push.method = "create"
    /\ last_push.pushed = AimSubj
    /\ apic[BD] = "present"
    /\ request = <<>>
    /\ Len(last_push.calls) = 1
    /\ AciBD \notin MosOf(last_push.calls[1])

----------------------------------------------------------------------------
(* The life of the worker: exceptions inside the loop, the stop signal and  *)
(* the warm bit, checked under SpecLife.  A subscription that fails leaves  *)
(* every variable as it is: the worker is at "subscribe", not subscribed,   *)
(* and _main_loop starts again with count = 3.                              *)

\* the exception leaves _run: the greenlet is dead
RaisedOut ==
    /\ pc \in {"drain", "filter", "fold"}
    /\ pc' = "dead"
    /\ UNCHANGED <<apic, subscribed, ws_events, events, owned_events,
                   monitored_events, drained_from, had_reset, state,
                   operational_state, monitored_state, tag_set,
                   object_backlog, request, next_id, last_get, last_push,
                   sync_state, count, warm,
                   snapshot, aid_state, tenant, reconcile_calls, shared>>

\* a handler that starts the worker afresh, the warm bit included
RestartedCold ==
    /\ pc' = "subscribe"
    /\ subscribed' = FALSE
    /\ count' = 3
    /\ warm' = FALSE
    /\ UNCHANGED <<snapshot, aid_state, tenant, reconcile_calls, shared>>
    /\ request' = <<>>
    /\ events' = <<>>
    /\ owned_events' = <<>>
    /\ monitored_events' = <<>>
    /\ drained_from' = <<>>
    /\ had_reset' = FALSE
    /\ UNCHANGED <<apic, ws_events, state, operational_state,
                   monitored_state, tag_set, object_backlog, next_id,
                   last_get, last_push, sync_state>>

\* _main_loop, except Exception: the error is logged and the tenant is
\* unsubscribed; _run calls _main_loop again, which sets count = 3
Restarted ==
    /\ pc' = "subscribe"
    /\ subscribed' = FALSE
    /\ count' = 3
    /\ UNCHANGED <<snapshot, aid_state, tenant, reconcile_calls, shared>>
    /\ request' = <<>>
    /\ events' = <<>>
    /\ owned_events' = <<>>
    /\ monitored_events' = <<>>
    /\ drained_from' = <<>>
    /\ had_reset' = FALSE
    /\ UNCHANGED <<apic, ws_events, state, operational_state,
                   monitored_state, tag_set, object_backlog, next_id,
                   last_get, last_push, sync_state, warm>>

\* instance_has_event or instance_get_event_data raises
DrainRaises ==
    /\ pc = "drain"
    /\ Len(ws_events) <= MaxEvents
    /\ Restarted

\* _filter_ownership, or _event_to_tree before it changes a tree, raises
FoldRaises ==
    /\ pc \in {"filter", "fold"}
    /\ Restarted

InLoop == pc \in {"subscribe", "push", "drain", "fill", "filter", "fold",
                  "sleep"}

\* kill(): gevent raises GreenletExit in the greenlet; _main_loop raises it
\* again and _run catches it
Stop ==
    /\ InLoop
    /\ pc' = "exiting"
    /\ request' = <<>>
    /\ events' = <<>>
    /\ owned_events' = <<>>
    /\ monitored_events' = <<>>
    /\ drained_from' = <<>>
    /\ had_reset' = FALSE
    /\ UNCHANGED <<apic, subscribed, ws_events, state, operational_state,
                   monitored_state, tag_set, object_backlog, next_id,
                   last_get, last_push, sync_state, count, warm,
                   snapshot, aid_state, tenant, reconcile_calls, shared>>

\* _run, except GreenletExit: self._unsubscribe_tenant(), then return
ExitUnsubscribe ==
    /\ pc = "exiting"
    /\ subscribed' = FALSE
    /\ pc' = "stopped"
    /\ UNCHANGED <<apic, ws_events, events, owned_events, monitored_events,
                   drained_from, had_reset, state, operational_state,
                   monitored_state, tag_set, object_backlog, request,
                   next_id, last_get, last_push, sync_state, count, warm,
                   snapshot, aid_state, tenant, reconcile_calls, shared>>

\* an unsubscribe whose exception leaves _run
ExitRaisesOut ==
    /\ pc = "exiting"
    /\ pc' = "dead"
    /\ UNCHANGED <<apic, subscribed, ws_events, events, owned_events,
                   monitored_events, drained_from, had_reset, state,
                   operational_state, monitored_state, tag_set,
                   object_backlog, request, next_id, last_get, last_push,
                   sync_state, count, warm,
                   snapshot, aid_state, tenant, reconcile_calls, shared>>

\* the unsubscribe raises: the error is logged, finally: return
ExitUnsubscribeRaises ==
    /\ pc = "exiting"
    /\ pc' = "stopped"
    /\ UNCHANGED <<apic, subscribed, ws_events, events, owned_events,
                   monitored_events, drained_from, had_reset, state,
                   operational_state, monitored_state, tag_set,
                   object_backlog, request, next_id, last_get, last_push,
                   sync_state, count, warm,
                   snapshot, aid_state, tenant, reconcile_calls, shared>>

Exit ==
    \/ ExitUnsubscribe
    \/ ExitUnsubscribeRaises

NextLife ==
    \/ Worker
    \/ Caller
    \/ DrainRaises
    \/ FoldRaises
    \/ Stop
    \/ Exit

SpecLife == Init /\ [][NextLife]_vars

\* _run goes on after the GreenletExit is caught: it is not switched out
\* for good between the except clause and its return
SpecLifeFair == SpecLife /\ WF_vars(Exit)

\* the order of the positions of an iteration that no exception disturbs
Follows(from, to) ==
    \/ to = from
    \/ <<from, to>> \in {<<"subscribe", "push">>, <<"push", "drain">>,
                         <<"drain", "fill">>, <<"drain", "sleep">>,
                         <<"fill", "filter">>, <<"filter", "fold">>,
                         <<"fold", "sleep">>, <<"sleep", "subscribe">>}

\* a step in which an exception other than the stop signal ends the
\* iteration
IsException == InLoop /\ ~Follows(pc, pc') /\ pc' # "exiting"

C15_StopUnsubscribesOnceAndExits ==
    /\ [][pc = "exiting" => pc' \in {"exiting", "stopped"}]_vars
    /\ [][pc = "stopped" => (pc' = "stopped" /\ subscribed' = subscribed)
         ]_vars
    /\ [][(pc \in {"exiting", "stopped"}) =>
             /\ UNCHANGED <<apic, ws_events, request, last_get, last_push,
                            state, operational_state, monitored_state,
                            tag_set, count, warm>>
             /\ Len(object_backlog') >= Len(object_backlog)
         ]_vars
    /\ (pc = "exiting" ~> pc = "stopped")

\* the worker is stopped, its unsubscribe has raised, and a request that
\* was enqueued is left in the backlog
C15_Witness ==
    /\ pc = "stopped"
    /\ subscribed
    /\ object_backlog # <<>>
    /\ ws_events # <<>>

\* C16, as claimed: the worker is warm from the end of the third iteration
\* of a subscription cycle on (count has gone 3, 2, 1, 0), not before.
C16_WarmAfterThreeIterations ==
    /\ ~warm
    /\ [][(pc = "sleep" /\ pc' = "subscribe") =>
             (warm' <=> (warm \/ count = 1))
         ]_vars

\* C16, amended: a new worker is not warm; the warm bit is set by the end
\* of the iteration that finds the count-down at 0, the fourth of a cycle
\* without error, and by no other step; an exception sets the count-down
\* to 3 again; the bit is never cleared.
C16_WarmAfterFourIterations ==
    /\ ~warm
    /\ [][(pc = "sleep" /\ pc' = "subscribe") =>
             /\ warm' <=> (warm \/ count = 0)
             /\ count' = IF count >= 0 THEN count - 1 ELSE count
         ]_vars
    /\ [][~(pc = "sleep" /\ pc' = "subscribe") => warm' = warm]_vars
    /\ [][IsException => count' = 3]_vars
    /\ [][warm => warm']_vars
    /\ [](~warm => count >= 0)

\* three iterations are over, the fourth is at its end, and the worker is
\* not warm
C16_Witness ==
    /\ pc = "sleep"
    /\ count = 0
    /\ ~warm
    /\ subscribed

----------------------------------------------------------------------------
(* The snapshots: get_state_copy, get_operational_state_copy and            *)
(* get_monitored_state_copy.  Each serialises the worker's tree and parses  *)
(* the string into a new tree.  A reader runs between two steps of the      *)
(* worker: serialising and parsing do no I/O, so the greenlet is not        *)
(* switched out in the middle of a copy.                                    *)

\* str(tree): the nodes of the tree, each with its key
str(tree) == {<<k, tree[k]>> : k \in DOMAIN tree}

\* StructuredHashTree.from_string: a new tree with the nodes of the string
from_string(string) ==
    [k \in {node[1] : node \in string} |->
        (CHOOSE node \in string : node[1] = k)[2]]

\* a getter that hands out the worker's own tree object
TreeItself(kind, tree) ==
    [kind |-> kind, tree |-> tree, taken |-> tree, same |-> TRUE,
     changed |-> FALSE]

\* StructuredHashTree.from_string(str(tree), root_key=tree.root_key)
TreeCopy(kind, tree) ==
    [kind |-> kind, tree |-> from_string(str(tree)), taken |-> tree,
     same |-> FALSE, changed |-> FALSE]

\* all that a reader of its own tree object leaves alone
worker_held == <<apic, subscribed, ws_events, pc, events, owned_events,
                 monitored_events, drained_from, had_reset, tag_set,
                 object_backlog, request, next_id, last_get, last_push,
                 sync_state, count, warm, aid_state, tenant, reconcile_calls,
                 shared>>

get_state_copy ==
    /\ snapshot' = TreeCopy("config", state)
    /\ UNCHANGED <<worker_held, state, operational_state, monitored_state>>

get_operational_state_copy ==
    /\ snapshot' = TreeCopy("operational", operational_state)
    /\ UNCHANGED <<worker_held, state, operational_state, monitored_state>>

get_monitored_state_copy ==
    /\ snapshot' = TreeCopy("monitored", monitored_state)
    /\ UNCHANGED <<worker_held, state, operational_state, monitored_state>>

\* the reader removes a node from the tree it got; were the tree the
\* worker's own object, the node would be gone from the worker's tree too
ReaderChanges ==
    /\ snapshot.kind # "none"
    /\ \E k \in DOMAIN snapshot.tree :
          LET tree == [j \in DOMAIN snapshot.tree \ {k} |-> snapshot.tree[j]]
              mine(kind, own) == IF snapshot.same /\ snapshot.kind = kind
                                 THEN tree ELSE own
          IN  /\ snapshot' = [snapshot EXCEPT !.tree = tree,
                                               !.changed = TRUE]
              /\ state' = mine("config", state)
              /\ operational_state' = mine("operational", operational_state)
              /\ monitored_state' = mine("monitored", monitored_state)
    /\ UNCHANGED worker_held

Reader ==
    \/ get_state_copy
    \/ get_operational_state_copy
    \/ get_monitored_state_copy
    \/ ReaderChanges

\* the worker observes a Fabric that changes, and a reader takes snapshots
NextSnap ==
    \/ AdminCreate
    \/ PeerCreate
    \/ AdminDelete
    \/ FaultRaise
    \/ Subscribe
    \/ PushGet
    \/ Drain
    \/ Fill
    \/ FillRaises
    \/ Filter
    \/ Fold
    \/ Yield
    \/ Reader

SpecSnap == Init /\ [][NextSnap]_vars

----------------------------------------------------------------------------
(* The reconciler's retry cache, for one root and the pair of               *)
(* configuration universes.  On every tick the operations of the diff are   *)
(* tracked: an operation the diff yields again is retried, after too many   *)
(* retries both universes are reset for the root, and after more retries    *)
(* the object is failed.  Here the Fabric takes the pushes and does         *)
(* nothing, so that the worker's tree stays as it is.                       *)

\* the largest reset_retry_limit, and the largest distance from it to
\* purge_retry_limit, of the configurations looked at
MaxLimit == 3

\* the operations of the diff: a failed object is left out of it
Operations ==
    IF sync_status = "FAILED" THEN [create |-> {}, delete |-> {}]
    ELSE Diff(state, DesiredTree)

\* an entry that runs out one tick early
ExceededEarly(entry) == entry.retries >= entry.limit

\* the operation was retried more often than its limit allows
Exceeded(entry) == entry.retries > entry.limit

\* the entry of an operation the diff yields: a new one if it was not
\* yielded on the tick before, and one more retry
Tracked(cache) ==
    LET entry == IF cache.entry = <<>>
                 THEN [retries |-> -1, limit |-> cache.reset_retry_limit,
                       action |-> "reset"]
                 ELSE cache.entry
    IN  [entry EXCEPT !.retries = @ + 1]

\* one tick of the reconciler for the root; the ticks looked at end two
\* ticks after the one that fails the object
Tick ==
    /\ action_cache.yielded <= action_cache.purge_retry_limit + 2
    /\ IF BD \notin Operations.create
       THEN /\ action_cache' = [action_cache EXCEPT !.entry = <<>>,
                                                    !.yielded = 0,
                                                    !.pushed = <<>>,
                                                    !.reset = {}]
            /\ UNCHANGED sync_status
       ELSE LET entry == Tracked(action_cache)
            IN  IF ~Exceeded(entry)
                THEN /\ action_cache' =
                          [action_cache EXCEPT !.entry = entry,
                                               !.yielded = @ + 1,
                                               !.pushed = <<BD>>,
                                               !.reset = {}]
                     /\ UNCHANGED sync_status
                ELSE IF entry.action = "reset"
                THEN /\ action_cache' =
                          [action_cache EXCEPT
                              !.entry =
                                 [entry EXCEPT
                                     !.limit =
                                        action_cache.purge_retry_limit,
                                     !.action = "purge"],
                              !.yielded = @ + 1,
                              !.pushed = <<>>,
                              !.reset = {"current", "desired"}]
                     /\ UNCHANGED sync_status
                ELSE /\ action_cache' =
                          [action_cache EXCEPT !.entry = entry,
                                               !.yielded = @ + 1,
                                               !.pushed = <<>>,
                                               !.reset = {}]
                     /\ sync_status' = "FAILED"
    /\ UNCHANGED <<apic, subscribed, ws_events, pc, events, owned_events,
                   monitored_events, drained_from, had_reset, state,
                   operational_state, monitored_state, tag_set,
                   object_backlog, request, next_id, last_get, last_push,
                   desired, tracked, sync_phase, count, warm, snapshot,
                   failures, agents, tenant, reconcile_calls, shared>>

NextRetry ==
    \/ Tick
    \/ Intent

\* the agent starts with the retry limits of its configuration
InitRetry ==
    /\ InitWith(BareFabric, <<>>, "subscribe")
    /\ \E reset_limit \in 1..MaxLimit :
          \E purge_limit \in (reset_limit + 1)..(reset_limit + MaxLimit) :
             action_cache = [NoAction EXCEPT
                                !.reset_retry_limit = reset_limit,
                                !.purge_retry_limit = purge_limit]
    /\ failures = NoFailures
    /\ agents = NoAgents

SpecRetry == InitRetry /\ [][NextRetry]_vars

\* a tick on which the diff yielded the operation once more
IsRetryTick == action_cache'.yielded = action_cache.yielded + 1

----------------------------------------------------------------------------
(* Push errors.  The session raises an exception while the worker pushes    *)
(* the create of the object; the worker reports what it catches with        *)
(* creation_failed, and the reconciler decides by the class of the error    *)
(* it is told of.                                                           *)

\* the errors a push may meet between two changes of the object by Intent
MaxErrors == 4

NotOk(err_code) == [type |-> "ApicResponseNotOk", err_code |-> err_code]

Raised(type) == [type |-> type, err_code |-> ""]

\* what the session raises: the Fabric answers with code 122 or 102, the
\* request times out, the login cookie is missing, or anything else
Exceptions ==
    {NotOk("122"), NotOk("102"), Raised("Timeout"),
     Raised("ApicResponseNoCookie"), Raised("Exception")}

ErrorClasses ==
    {"OPERATION_CRITICAL", "OPERATION_TRANSIENT", "SYSTEM_TRANSIENT",
     "SYSTEM_CRITICAL", "UNKNOWN"}

\* the class of an error
ErrorClass(e) ==
    CASE e = NotOk("122") -> "OPERATION_CRITICAL"
      [] e = NotOk("102") -> "OPERATION_TRANSIENT"
      [] e.type = "Timeout" -> "SYSTEM_TRANSIENT"
      [] e.type = "ApicResponseNoCookie" -> "SYSTEM_CRITICAL"
      [] OTHER -> "UNKNOWN"

\* _push_aim_resources, lines 372-382: only apic_exc.ApicResponseNotOk is
\* caught and reported, as creation_failed(aim_object, e.message); any
\* other exception leaves the method and no callback is made
Reported(e) ==
    IF e.type = "ApicResponseNotOk" THEN <<[reason |-> e]>> ELSE <<>>

\* the reconciler is told of a failed creation.  It is taken to find the
\* class of the error in the reason it is given.
OnFailure(known, status, callback) ==
    LET class == ErrorClass(callback.reason)
        counted == class \in {"OPERATION_TRANSIENT", "UNKNOWN"}
        retries == IF counted THEN known.retries + 1 ELSE known.retries
    IN  [failures |-> [known EXCEPT
                          !.retries = retries,
                          !.harakiri = @ \/ class = "SYSTEM_CRITICAL"],
         sync_status |->
            IF \/ class = "OPERATION_CRITICAL"
               \/ counted /\ retries >= known.max_operation_retry
            THEN "FAILED" ELSE status]

\* the number of errors met since Intent changed the object
MetInAll(known) ==
    known.met["OPERATION_CRITICAL"] + known.met["OPERATION_TRANSIENT"]
    + known.met["SYSTEM_TRANSIENT"] + known.met["SYSTEM_CRITICAL"]
    + known.met["UNKNOWN"]

\* history: one more error of the class was met
Met(known, e) ==
    [known EXCEPT !.met = [c \in ErrorClasses |->
                             IF c = ErrorClass(e) THEN @[c] + 1 ELSE @[c]]]

\* the frame of the agent-level steps on the object's status
ErrorsFrame ==
    UNCHANGED <<apic, subscribed, ws_events, pc, events, owned_events,
                monitored_events, drained_from, had_reset, state,
                operational_state, monitored_state, tag_set, object_backlog,
                request, next_id, last_get, last_push, tracked, sync_phase,
                count, warm, snapshot, action_cache, agents,
                tenant, reconcile_calls, shared>>

\* one tick with a push of the pending object that meets an error
PushFails ==
    /\ BD \in desired
    /\ sync_status = "PENDING"
    /\ ~failures.harakiri
    /\ MetInAll(failures) < MaxErrors
    /\ \E e \in Exceptions :
          LET known == Met(failures, e)
              after == IF Reported(e) = <<>>
                       THEN [failures |-> known, sync_status |-> sync_status]
                       ELSE OnFailure(known, sync_status, Reported(e)[1])
          IN  /\ failures' = after.failures
              /\ sync_status' = after.sync_status
    /\ UNCHANGED desired
    /\ ErrorsFrame

\* Intent creates the object or changes it: it is pending again
Update ==
    /\ ~failures.harakiri
    /\ desired' = {BD}
    /\ sync_status' = "PENDING"
    /\ failures' = [failures EXCEPT
                       !.retries = 0,
                       !.met = [c \in ErrorClasses |-> 0]]
    /\ ErrorsFrame

NextErrors ==
    \/ PushFails
    \/ Update

InitErrors ==
    /\ InitWith(BareFabric, <<>>, "subscribe")
    /\ action_cache = NoAction
    /\ agents = NoAgents
    /\ \E limit \in 1..MaxLimit :
          failures = [NoFailures EXCEPT
                         !.max_operation_retry = limit,
                         !.met = [c \in ErrorClasses |-> 0]]

SpecErrors == InitErrors /\ [][NextErrors]_vars

\* C19: the object is FAILED exactly when, since Intent last changed it, its
\* pushes met an OPERATION_CRITICAL error, or met max_operation_retry or
\* more OPERATION_TRANSIENT and UNKNOWN errors; SYSTEM_TRANSIENT errors do
\* not count, however many they are.
C19_ErrorClassesDecideFailure ==
    sync_status = "FAILED" <=>
       \/ failures.met["OPERATION_CRITICAL"] > 0
       \/ failures.met["OPERATION_TRANSIENT"] + failures.met["UNKNOWN"]
             >= failures.max_operation_retry

\* UNKNOWN errors were met as often as the limit says, and more than once
C19_Witness ==
    /\ failures.max_operation_retry > 1
    /\ failures.met["UNKNOWN"] >= failures.max_operation_retry
    /\ failures.met["SYSTEM_TRANSIENT"] > 0
    /\ BD \in desired

----------------------------------------------------------------------------
(* The roots an agent serves: _calculate_tenants.  The store holds the      *)
(* registered agents and the roots that have a tree; an agent serves the    *)
(* roots that the hash ring of the eligible agents assigns to it.           *)

\* the points of the hash ring
RingSize == 3

\* the agents a key is assigned to
Replicas == 2

AgentIds == {"h1", "h2", "h3"}

Roots == {"keyA", "keyA1", "keyA2"}

Registered == {id \in AgentIds : agents.peers[id].registered}

\* the agents that are up, by administration and by heartbeat
Up == {id \in Registered : agents.peers[id].admin_state_up}

\* the agents of the newest version among those that are up
Eligible ==
    {id \in Up : \A other \in Up :
                    agents.peers[other].version <= agents.peers[id].version}

\* the way on the ring from the point of the root to the point of the agent
Distance(root, id) ==
    (agents.place[id] - agents.place[root] + RingSize) % RingSize

\* a ring that assigns a key to the nearest agent only
assign_one(root, nodes) ==
    {id \in nodes : \A other \in nodes :
                       Distance(root, id) <= Distance(root, other)}

\* the first Replicas agents met on the ring from the point of the root
assign_key(root, nodes) ==
    {id \in nodes :
        Cardinality({other \in nodes :
                        Distance(root, other) < Distance(root, id)})
          < Replicas}

\* the result of _calculate_tenants for the agent
Serves(id) ==
    IF agents.single_aid THEN agents.roots
    ELSE IF id \notin Eligible THEN {}
    ELSE {root \in agents.roots : id \in assign_key(root, Eligible)}

\* every registered agent calculates the roots it serves
CalculateTenants ==
    /\ agents.served = <<>>
    /\ Registered # {}
    /\ agents' = [agents EXCEPT !.served = [id \in Registered |-> Serves(id)]]
    /\ UNCHANGED <<apic, subscribed, ws_events, pc, events, owned_events,
                   monitored_events, drained_from, had_reset, state,
                   operational_state, monitored_state, tag_set,
                   object_backlog, request, next_id, last_get, last_push,
                   sync_state, count, warm, snapshot, action_cache,
                   failures, tenant, reconcile_calls, shared>>

PeerStates ==
    {[registered |-> FALSE, admin_state_up |-> FALSE, version |-> 1]}
    \cup [registered : {TRUE}, admin_state_up : BOOLEAN, version : 1..2]

\* a store with any agents and roots, and any hash of their names that
\* sets the agents at different points of the ring
InitServe ==
    /\ InitWith(BareFabric, <<>>, "subscribe")
    /\ action_cache = NoAction
    /\ failures = NoFailures
    /\ \E peers \in [AgentIds -> PeerStates], roots \in SUBSET Roots,
          single_aid \in BOOLEAN,
          place \in [AgentIds \cup Roots -> 0..(RingSize - 1)] :
          /\ \A a, b \in AgentIds : a # b => place[a] # place[b]
          /\ \A root \in Roots \ roots : place[root] = 0
          /\ agents = [peers |-> peers, roots |-> roots, place |-> place,
                       single_aid |-> single_aid, served |-> <<>>]

SpecServe == InitServe /\ [][CalculateTenants]_vars

\* the eligible agents among those that calculated the root as theirs
ServersOf(root) ==
    {id \in DOMAIN agents.served \cap Eligible : root \in agents.served[id]}

Calculated == agents.served # <<>>

----------------------------------------------------------------------------
(* flat_events alone, on batches of events that carry nested children.      *)

MaxDepth == 2       \* levels of nested children below an event
MaxChildren == 2    \* children directly below an event of the queue

DELEGATE_KEY == "faultDelegate"

\* children as the Fabric nests them: no dn, and an rn, a name, a code or
\* none of them; faultDelegate is a class the prefix table does not hold
ChildShapes ==
    {[klass |-> FAULT_KEY, attributes |-> [code |-> "F1"]],
     [klass |-> FAULT_KEY, attributes |-> [rn |-> <<"fault", "F2">>,
                                           code |-> "F3"]],
     [klass |-> TAG_KEY, attributes |-> [name |-> "sys"]],
     [klass |-> BD_KEY, attributes |-> [descr |-> "d"]],
     [klass |-> DELEGATE_KEY, attributes |-> [code |-> "F1"]]}

WithChildren(event, children) ==
    IF children = <<>> THEN event
    ELSE [klass |-> event.klass, attributes |-> event.attributes,
          children |-> children]

RECURSIVE NestedChildren(_)
\* the children with at most depth - 1 levels of children below them
NestedChildren(depth) ==
    IF depth <= 1 THEN ChildShapes
    ELSE LET below == NestedChildren(depth - 1)
         IN  below \cup {WithChildren(c, <<n>>) :
                            c \in ChildShapes, n \in below}

NestedEvents ==
    {WithChildren([klass |-> BD_KEY, attributes |-> [dn |-> BD]], children) :
        children \in SeqsUpTo(NestedChildren(MaxDepth), MaxChildren)}

PlainEvent == [klass |-> BD_KEY, attributes |-> [dn |-> BD2]]

InitFlat ==
    /\ InitAid
    /\ \E event \in NestedEvents :
       \E queue \in {<<event>>, <<event, PlainEvent>>,
                     <<PlainEvent, event>>} :
          InitWith(BareFabric, queue, "drain")

SpecFlat == InitFlat /\ [][Drain]_vars

RECURSIVE PathsOf(_)
\* the positions of the nested children of an event, at every depth
PathsOf(event) ==
    IF ~HasChildren(event) THEN {}
    ELSE UNION {{<<i>>} \cup {<<i>> \o q : q \in PathsOf(event.children[i])} :
                   i \in 1..Len(event.children)}

RECURSIVE NodeAt(_, _)
NodeAt(event, path) ==
    IF path = <<>> THEN event
    ELSE NodeAt(event.children[Head(path)], Tail(path))

\* the class of the child and of each of its ancestors inside the event is
\* in the prefix table
KnownPath(event, path) ==
    \A n \in 1..Len(path) :
        NodeAt(event, SubSeq(path, 1, n)).klass \in DOMAIN mos_to_prefix

\* rn if present, else the prefix followed by the name or the code; the
\* prefix alone for a child that has neither
RnOrPrefixed(child) ==
    LET attrs == child.attributes
        prefix == mos_to_prefix[child.klass]
    IN  IF "rn" \in DOMAIN attrs THEN attrs.rn
        ELSE IF "name" \in DOMAIN attrs THEN <<prefix, attrs.name>>
        ELSE IF "code" \in DOMAIN attrs THEN <<prefix, attrs.code>>
        ELSE <<prefix>>

RECURSIVE FlatDn(_, _)
FlatDn(event, path) ==
    IF path = <<>> THEN Dn(event)
    ELSE Append(FlatDn(event, Front(path)),
                RnOrPrefixed(NodeAt(event, path)))

\* the nested child as a top-level event
AsFlat(event, path) ==
    WithDn(PopChildren(NodeAt(event, path)), FlatDn(event, path))

KnownPaths(evs) ==
    UNION {{<<i, p>> : p \in {q \in PathsOf(evs[i]) : KnownPath(evs[i], q)}} :
              i \in 1..Len(evs)}

Flattens == pc = "drain" /\ pc' = "fill"

\* C21: after flatten, every nested child at any depth whose class and
\* whose ancestors' classes inside the event are in the prefix table is a
\* top-level event with DN = parent DN / (rn if present, else prefix-name
\* or prefix-code); the original events keep their order ahead of the
\* synthesized ones, and no event still carries nested children.
C21_FlattenLiftsKnownChildren ==
    [][Flattens =>
        LET input == instance_get_event_data(ws_events)
            out == events'
        IN  /\ Len(out) >= Len(input)
            /\ \A i \in 1..Len(input) : out[i] = PopChildren(input[i])
            /\ \A ip \in KnownPaths(input) :
                  \E k \in (Len(input) + 1)..Len(out) :
                      out[k] = AsFlat(input[ip[1]], ip[2])
            /\ \A k \in 1..Len(out) : CHILDREN_FIELD \notin DOMAIN out[k]
      ]_vars

\* a fault nested in a fault nested in the first event came out with the
\* DN of the event extended by two RNs, after the two events of the queue
C21_Witness ==
    /\ pc = "fill"
    /\ Len(drained_from) = 2
    /\ HasChildren(drained_from[1])
    /\ HasChildren(drained_from[1].children[1])
    /\ drained_from[1].children[1].klass = FAULT_KEY
    /\ drained_from[1].children[1].children[1].klass = FAULT_KEY
    /\ Len(events) = 4
    /\ Dn(events[2]) = BD2
    /\ Dn(events[3]) = Append(BD, <<"fault", "F1">>)
    /\ Dn(events[4]) = Append(Append(BD, <<"fault", "F1">>),
                              <<"fault", "F2">>)

\* C22: flatten drops every nested child whose class is not in the prefix
\* table, together with that child's own descendants, and keeps its
\* known-class siblings and its parent.
C22_FlattenDropsUnknownChildren ==
    [][Flattens =>
        LET input == instance_get_event_data(ws_events)
            out == events'
            known == KnownPaths(input)
            lifted(i, p) == \E k \in 1..Len(out) : out[k] = AsFlat(input[i], p)
        IN  /\ Len(out) = Len(input) + Cardinality(known)
            /\ \A k \in (Len(input) + 1)..Len(out) :
                  \E ip \in known : out[k] = AsFlat(input[ip[1]], ip[2])
            /\ \A i \in 1..Len(input) :
               \A p \in PathsOf(input[i]) :
                  (/\ KnownPath(input[i], Front(p))
                   /\ ~KnownPath(input[i], p))
                  => /\ IF Len(p) = 1 THEN out[i] = PopChildren(input[i])
                        ELSE lifted(i, Front(p))
                     /\ \A j \in 1..Len(NodeAt(input[i], Front(p)).children) :
                           KnownPath(input[i], Append(Front(p), j))
                           => lifted(i, Append(Front(p), j))
      ]_vars

\* the event had a faultDelegate child, itself with a fault below it, and a
\* fault child: the event and the fault child alone came out
C22_Witness ==
    /\ pc = "fill"
    /\ Len(drained_from) = 1
    /\ HasChildren(drained_from[1])
    /\ Len(drained_from[1].children) = 2
    /\ drained_from[1].children[1].klass = DELEGATE_KEY
    /\ HasChildren(drained_from[1].children[1])
    /\ drained_from[1].children[1].children[1].klass = FAULT_KEY
    /\ drained_from[1].children[2].klass = FAULT_KEY
    /\ Len(events) = 2
    /\ Dn(events[1]) = BD
    /\ Dn(events[2]) = Append(BD, <<"fault", "F1">>)

----------------------------------------------------------------------------
(* _fill_events alone, on every short batch of flat events and every state *)
(* of the Fabric below the tenant.                                          *)

MaxBatch == 2       \* events of a batch handed to _fill_events

\* the BD exists or not, with or without its fault; it has no tag
FillFabrics ==
    {[m \in MoDns |-> CASE m = TN -> "present"
                        [] m = BD -> held[1]
                        [] m = FLT -> held[2]
                        [] OTHER -> "absent"] :
        held \in {<<"absent", "absent">>, <<"present", "absent">>,
                  <<"present", "present">>}}

\* events of the BD and of its fault, with every status and with none
FillEvents ==
    {[klass |-> BD_KEY, attributes |-> [dn |-> BD]],
     [klass |-> FAULT_KEY,
      attributes |-> [dn |-> FLT, code |-> "F1", severity |-> "minor"]]}
    \cup {[klass |-> BD_KEY, attributes |-> [dn |-> BD, status |-> st]] :
             st \in {"created", "modified", DELETED_STATUS}}
    \cup {[klass |-> FAULT_KEY,
           attributes |-> [dn |-> FLT, code |-> "F1", severity |-> "minor",
                           status |-> st]] :
             st \in {"created", "modified", DELETED_STATUS}}

\* the batches of one drain: no two events of the same class and DN
FillBatches ==
    {b \in SeqsUpTo(FillEvents, MaxBatch) :
        /\ b # <<>>
        /\ \A i, j \in 1..Len(b) : i < j => Pair(b[i]) # Pair(b[j])}

InitFill ==
    /\ InitAid
    /\ \E fabric \in FillFabrics, batch \in FillBatches :
          InitWith(fabric, batch, "drain")

NextFill ==
    \/ Drain
    \/ Fill
    \/ FillRaises

SpecFill == InitFill /\ [][NextFill]_vars

Fills == pc = "fill" /\ pc' = "filter"

Status(event) == Get(event.attributes, STATUS_FIELD)

\* the Fabric answers 404 for every object that is missing
All404(evs) == [i \in 1..Len(evs) |-> "404"]

\* C23 (as claimed): when the Fabric answers 404 for the object of a
\* non-deleted event during fill, no exception is raised and the fill
\* output contains no non-deleted event for that DN.
C23_NotFoundIsDeleted ==
    [][(Fills /\ events' = retrieve_aci_objects(events, All404(events))) =>
        \A i \in 1..Len(events) :
            (/\ Status(events[i]) # DELETED_STATUS
             /\ IsIncomplete(events[i])
             /\ apic[Dn(events[i])] = "absent")
            => \A k \in 1..Len(events') :
                   Dn(events'[k]) = Dn(events[i])
                   => Status(events'[k]) = DELETED_STATUS
      ]_vars

\* the output of the fill is the event of a fault, without status and not
\* cleared, that the Fabric does not hold: the event of the batch, as it
\* came
C23_Witness ==
    /\ pc = "filter"
    /\ Len(events) = 1
    /\ events[1].klass = FAULT_KEY
    /\ Status(events[1]) = None
    /\ ~_is_deleting(events[1])
    /\ apic[Dn(events[1])] = "absent"

\* the same for the events that carry a status: their object is left out
C23_WithStatus ==
    [][(Fills /\ events' = retrieve_aci_objects(events, All404(events))) =>
        \A i \in 1..Len(events) :
            (/\ Status(events[i]) \notin {DELETED_STATUS, None}
             /\ apic[Dn(events[i])] = "absent")
            => \A k \in 1..Len(events') :
                   Dn(events'[k]) = Dn(events[i])
                   => Status(events'[k]) = DELETED_STATUS
      ]_vars

NoFetch(event) ==
    \/ Status(event) = DELETED_STATUS
    \/ Status(event) = None /\ event.klass \notin OPERATIONAL_LIST

\* C24: fill issues no Fabric fetch for an event whose status is deleted or
\* for a non-operational event with no status, and a batch made only of
\* such events is returned unchanged (same events, same order).
C24_CompleteEventsAreNotFetched ==
    [][Fills =>
        \A missing \in [1..Len(events) -> {"404", "empty"}] :
            LET gets == get_data_calls(events, missing)
                asking == {i \in 1..Len(events) : ~NoFetch(events[i])}
            IN  /\ Len(gets) <= Cardinality(asking)
                /\ \A n \in 1..Len(gets) :
                      \E i \in asking : gets[n] = Dn(events[i])
                /\ asking = {} => /\ gets = <<>>
                                  /\ events' = events
      ]_vars

\* the deleted event of the fault and the event of the BD without status
\* went through the fill as they were, on a Fabric that holds neither
\* object: no answer of the Fabric is in the output
C24_Witness ==
    /\ pc = "filter"
    /\ Len(events) = 2
    /\ events[1].klass = FAULT_KEY
    /\ Status(events[1]) = DELETED_STATUS
    /\ events[2].klass = BD_KEY
    /\ Status(events[2]) = None
    /\ apic[BD] = "absent"
    /\ apic[FLT] = "absent"

----------------------------------------------------------------------------
(* The subscription alone, for the worker of every root name.               *)

RootNames == {"t", "common", "prj1"}

\* CHILDREN_LIST and INFRA_CHILDREN_LIST, for the classes of the model
CHILDREN_LIST == {TENANT_KEY, BD_KEY, FAULT_KEY, TAG_KEY}
INFRA_CHILDREN_LIST == {INFRA_KEY, TAG_KEY}

\* the orders in which the iteration of a set may give its members
Orders(S) ==
    {order \in [1..Cardinality(S) -> S] :
        \A i, j \in 1..Cardinality(S) : i # j => order[i] # order[j]}

\* AciTenantManager.initialize_target, AciInfraManager.initialize_target
Targets ==
    {Tenant(name, children_mos) :
        name \in RootNames, children_mos \in Orders(CHILDREN_LIST)}
    \cup {Infra("infra", children_mos) :
             children_mos \in Orders(INFRA_CHILDREN_LIST)}

InitUrl ==
    /\ InitAid
    /\ \E target \in Targets : InitOf(BareFabric, <<>>, "subscribe", target)

SpecUrl == InitUrl /\ [][Subscribe]_vars

\* the path of the root: uni/tn-N, or uni/infra for the infra worker
RootPath(target) ==
    IF target.kind = "Infra" THEN "/api/mo/uni/infra"
    ELSE "/api/mo/uni/tn-" \o target.name

\* C25 (as claimed): the subscription URL of the worker for tenant root
\* name N is /api/mo/uni/tn-N.json?query-target=subtree&rsp-prop-include=
\* config-only&rsp-subtree-include=faults&subscription=yes&
\* target-subtree-class=<csv>, and the infra worker uses the same form with
\* path /api/mo/uni/infra.json: the URL carries the worker's own root name.
C25_UrlCarriesRootName ==
    tenant.url # ""
    => tenant.url =
          RootPath(tenant)
          \o ".json?query-target=subtree&rsp-prop-include=config-only"
          \o "&rsp-subtree-include=faults&subscription=yes"
          \o "&target-subtree-class=" \o join(",", tenant.filtered_children)

\* the worker of the tenant common subscribed with the braces of the format
\* string in the place of the name
C25_Witness ==
    /\ subscribed
    /\ tenant.kind = "Tenant"
    /\ tenant.name = "common"
    /\ tenant.filtered_children = <<TENANT_KEY, BD_KEY, FAULT_KEY, TAG_KEY>>
    /\ tenant.url =
          "/api/mo/uni/tn-{}.json?query-target=subtree"
          \o "&rsp-prop-include=config-only&rsp-subtree-include=faults"
          \o "&subscription=yes"
          \o "&target-subtree-class=fvTenant,fvBD,faultInst,tagInst"

\* the infra worker subscribed with the braces alone as the path of its root
C25_WitnessInfra ==
    /\ subscribed
    /\ tenant.kind = "Infra"
    /\ tenant.filtered_children = <<INFRA_KEY, TAG_KEY>>
    /\ tenant.url =
          "/api/mo/uni/{}.json?query-target=subtree"
          \o "&rsp-prop-include=config-only&rsp-subtree-include=faults"
          \o "&subscription=yes&target-subtree-class=infraInfra,tagInst"

----------------------------------------------------------------------------
(* The yield point of the loop: gevent.sleep, the last statement of         *)
(* _event_loop, is the step from "sleep" to the next subscription.          *)

\* a step that begins the next iteration of the loop
BeginsIteration == pc # "subscribe" /\ pc' = "subscribe"

\* C26 (as claimed): every loop iteration reaches a yield point before the
\* next iteration begins, including the iterations that end in an
\* exception.
C26_EveryIterationYields ==
    [][BeginsIteration => pc = "sleep"]_vars

\* the worker is at the subscription of a new iteration, unsubscribed by
\* the handler of the exception that ended the last one before its sleep
C26_Witness ==
    /\ pc = "subscribe"
    /\ ~subscribed
    /\ tenant.url # ""
    /\ count = 3
    /\ ~warm
    /\ object_backlog = <<>>
    /\ request = <<>>

----------------------------------------------------------------------------
(* The order of the steps of an iteration.                                  *)

\* the order of the positions with the events drained and folded before
\* the backlog is pushed
DrainsBeforePush(from, to) ==
    \/ to = from
    \/ <<from, to>> \in {<<"subscribe", "drain">>, <<"drain", "fill">>,
                         <<"drain", "push">>, <<"fill", "filter">>,
                         <<"filter", "fold">>, <<"fold", "push">>,
                         <<"push", "sleep">>, <<"sleep", "subscribe">>}

\* C27 (as claimed): in each loop iteration the worker performs its steps
\* in the order (re)subscribe, drain and fold pending events, push the
\* outbound backlog, yield; an exception leads back to the subscription.
C27_SubscribeDrainPushYield ==
    [][DrainsBeforePush(pc, pc') \/ pc' = "subscribe"]_vars

\* C27 (amended): in each loop iteration the worker performs its steps in
\* the order (re)subscribe, push the outbound backlog, drain and fold
\* pending events, yield; an exception leads back to the subscription.
C27_SubscribePushDrainYield ==
    [][Follows(pc, pc') \/ pc' = "subscribe"]_vars

\* the worker has sent the create of the BD and is about to drain the
\* events of this iteration, the one of the BD among them
C27_Witness ==
    /\ pc = "drain"
    /\ subscribed
    /\ last_push # NoPush
    /\ apic[BD] = "present"
    /\ \E i \in 1..Len(ws_events) : Dn(ws_events[i]) = BD

----------------------------------------------------------------------------
(* The signal to the reconciler: EventHandler.reconcile(), called by        *)
(* _event_to_tree.                                                          *)

\* C28 (as claimed): the reconciler is signalled that the observed side
\* changed only after the batch has been folded into all three trees; it
\* is never signalled while a tree of the same batch is still to be
\* updated.
C28_SignalAfterAllTrees ==
    \A i \in 1..Len(reconcile_calls) : reconcile_calls[i].pending = {}

\* the batch held the BD, which has no tag: the reconciler was signalled
\* after the update of the monitored tree, with the configuration tree
\* still to be updated, and once more after that update
C28_Witness ==
    /\ pc = "sleep"
    /\ BD \in DOMAIN monitored_state
    /\ BD \in DOMAIN state
    /\ Len(reconcile_calls) = 2
    /\ reconcile_calls[1] = [after |-> "monitored", pending |-> {"config"}]
    /\ reconcile_calls[2] = [after |-> "config", pending |-> {}]

----------------------------------------------------------------------------
(* The lists of the ownership filter, event by event.                       *)

Filters == pc = "filter" /\ pc' = "fold"

InList(list, event) == \E k \in 1..Len(list) : list[k] = event

\* C29 (as claimed): the ownership filter places every non-tag event,
\* deleted or not, in exactly one of the owned and monitored lists (owned
\* if and only if its DN, or its parent's DN for multi-parent classes, is
\* in tag_set), and places tag events in neither list.
C29_ExactlyOneList ==
    [][Filters =>
        \A i \in 1..Len(events) :
            LET event == events[i]
                owned == InList(owned_events', event)
                monitored == InList(monitored_events', event)
            IN  IF event.klass = TAG_KEY THEN ~owned /\ ~monitored
                ELSE /\ owned # monitored
                     /\ owned <=> OwnerDn(event) \in tag_set'
      ]_vars

\* C29 (amended): the ownership filter places every non-tag event that is
\* not deleted in exactly one of the owned and monitored lists (owned if
\* and only if its DN, or its parent's DN for multi-parent classes, is in
\* tag_set), every deleted non-tag event in both lists, and tag events in
\* neither list.
C29_OneListUnlessDeleted ==
    [][Filters =>
        \A i \in 1..Len(events) :
            LET event == events[i]
                owned == InList(owned_events', event)
                monitored == InList(monitored_events', event)
            IN  IF event.klass = TAG_KEY THEN ~owned /\ ~monitored
                ELSE IF _is_deleting(event) THEN owned /\ monitored
                ELSE /\ owned # monitored
                     /\ owned <=> OwnerDn(event) \in tag_set'
      ]_vars

\* the batch held the deleted tag of the BD and the deleted BD: the tag is
\* in neither list and the BD in both
C29_Witness ==
    /\ pc = "fold"
    /\ \E i \in 1..Len(events) :
          /\ events[i].klass = TAG_KEY
          /\ ~InList(owned_events, events[i])
          /\ ~InList(monitored_events, events[i])
    /\ \E i \in 1..Len(events) :
          /\ events[i].klass = BD_KEY
          /\ _is_deleting(events[i])
          /\ InList(owned_events, events[i])
          /\ InList(monitored_events, events[i])

\* the batch held a tagged BD and its fault: both are owned and neither is
\* monitored
C29_WitnessOwned ==
    /\ pc = "fold"
    /\ BD \in tag_set
    /\ Len(owned_events) >= 2
    /\ monitored_events = <<>>
    /\ \E i \in 1..Len(owned_events) : owned_events[i].klass = FAULT_KEY
    /\ \E i \in 1..Len(owned_events) : owned_events[i].klass = BD_KEY

----------------------------------------------------------------------------
(* The pushes of a caller whose objects carry every pair of flags.          *)

\* the Model object of the BD with the flags the reconciler may give it
FlaggedBDs ==
    {[AimBD EXCEPT !.monitored = m, !.pre_existing = p] :
        m \in BOOLEAN, p \in BOOLEAN}

\* create batches of one object
FlaggedRequests ==
    {<<[method |-> CREATE, objects |-> <<obj>>]>> : obj \in FlaggedBDs}

CallerFlagged ==
    /\ \E resources \in FlaggedRequests : push_aim_resources(resources)
    /\ UNCHANGED sync_state

NextOwn ==
    \/ Worker
    \/ CallerFlagged

SpecOwn == Init /\ [][NextOwn]_vars

\* C30: when a create batch contains a Model object with monitored=true,
\* the object is converted and pushed with monitored=false and
\* pre_existing=true (take ownership); a non-monitored object is converted
\* and pushed with its flags unchanged.
C30_MonitoredIsPushedAsPreExisting ==
    (last_push # NoPush /\ last_push.method = CREATE) =>
        LET given == last_push.pushed
            converted == last_push.converted
        IN  /\ converted.dn = given.dn
            /\ converted.aci_mo_name = given.aci_mo_name
            /\ IF given.monitored
               THEN ~converted.monitored /\ converted.pre_existing
               ELSE /\ converted.monitored = given.monitored
                    /\ converted.pre_existing = given.pre_existing
            /\ last_push.calls[1].mos[1] = AciOf(converted)
            /\ last_push.outcome = "ok"
               => last_push.creation_succeeded = <<converted>>

\* the create of a monitored BD was sent to the Fabric, which took it, and
\* the object went on as a pre-existing one that is not monitored
C30_Witness ==
    /\ last_push # NoPush
    /\ last_push.method = CREATE
    /\ last_push.outcome = "ok"
    /\ last_push.pushed.monitored
    /\ ~last_push.pushed.pre_existing
    /\ ~last_push.converted.monitored
    /\ last_push.converted.pre_existing
    /\ apic[BD] = "present"

\* the create of a BD that is pre-existing and not monitored was sent with
\* its flags as they were
C30_WitnessUnchanged ==
    /\ last_push # NoPush
    /\ last_push.method = CREATE
    /\ last_push.outcome = "ok"
    /\ ~last_push.pushed.monitored
    /\ last_push.pushed.pre_existing
    /\ last_push.converted = last_push.pushed

----------------------------------------------------------------------------
(* The aggregation of the drain as a merge of attributes, under SpecDrain.  *)

\* the occurrences of the pair that carry the attribute k
Carrying(queue, pair, k) ==
    {n \in Occurrences(queue, pair) : k \in DOMAIN queue[n].attributes}

\* C31: when the drain aggregates a later event into an earlier one of the
\* same class and DN, the surviving event is a merge: every attribute an
\* event of the pair carries is in the surviving event, with the value of
\* the latest event that carries it, so that an attribute only the earlier
\* event carries is retained.
C31_DrainMergesAttributes ==
    [][(pc = "drain" /\ pc' = "fill") =>
        \A i \in 1..Len(events') :
            \A n \in Occurrences(ws_events, Pair(events'[i])) :
                \A k \in DOMAIN ws_events[n].attributes :
                    /\ k \in DOMAIN events'[i].attributes
                    /\ events'[i].attributes[k] =
                          ws_events[LatestOf(Carrying(ws_events,
                                                      Pair(events'[i]),
                                                      k))].attributes[k]
      ]_vars

\* two events of one class and DN were pending, the earlier with
\* tnFvCtxName and the later without: the one event left does not have it
C31_Witness ==
    /\ pc = "fill"
    /\ Len(drained_from) = 2
    /\ Pair(drained_from[1]) = Pair(drained_from[2])
    /\ "tnFvCtxName" \in DOMAIN drained_from[1].attributes
    /\ "tnFvCtxName" \notin DOMAIN drained_from[2].attributes
    /\ Len(events) = 1
    /\ "tnFvCtxName" \notin DOMAIN events[1].attributes

----------------------------------------------------------------------------
(* _fill_events on batches that hold events of the tag of the BD, on a      *)
(* Fabric where the BD has its tag or not.                                  *)

\* the BD exists or not, with or without the tag of this agent
TaggedFabrics ==
    {[m \in MoDns |-> CASE m = TN -> "present"
                        [] m = BD -> held[1]
                        [] m = TagDn(BD) -> held[2]
                        [] OTHER -> "absent"] :
        held \in {<<"absent", "absent">>, <<"present", "absent">>,
                  <<"present", "present">>}}

\* events of the BD and of its tag: without status, modified and deleted
TagEvents ==
    {[klass |-> k, attributes |-> [dn |-> d]] :
        <<k, d>> \in {<<BD_KEY, BD>>, <<TAG_KEY, TagDn(BD)>>}}
    \cup {[klass |-> k, attributes |-> [dn |-> d, status |-> st]] :
             <<k, d>> \in {<<BD_KEY, BD>>, <<TAG_KEY, TagDn(BD)>>},
             st \in {"modified", DELETED_STATUS}}

TagBatches ==
    {b \in SeqsUpTo(TagEvents, MaxBatch) :
        /\ b # <<>>
        /\ \A i, j \in 1..Len(b) : i < j => Pair(b[i]) # Pair(b[j])}

InitTagged ==
    /\ InitAid
    /\ \E fabric \in TaggedFabrics, batch \in TagBatches :
          InitWith(fabric, batch, "drain")

SpecTagged == InitTagged /\ [][NextFill]_vars

\* C32: the fill output never contains two events with the same DN,
\* whatever mix of deleted events, events without status and events
\* completed by a fetch (whose subtree may overlap other events of the
\* batch) the input holds.
C32_FillOutputHasOneEventPerDn ==
    pc = "filter" =>
        \A i, j \in 1..Len(events) : i < j => Dn(events[i]) # Dn(events[j])

\* the output of a fill holds the tag of the BD twice: the event of the
\* batch, and the tag the Fabric returned below the BD that was fetched
C32_Witness ==
    /\ pc = "filter"
    /\ Len(events) = 3
    /\ events[1].klass = TAG_KEY
    /\ events[2].klass = BD_KEY
    /\ events[3].klass = TAG_KEY
    /\ Dn(events[1]) = Dn(events[3])
    /\ apic[TagDn(BD)] = "present"

----------------------------------------------------------------------------
(* An error of the Fabric during the fill, checked under SpecEvents.        *)

\* the step in which the fill raises and the handler of _main_loop runs
FillFails == pc = "fill" /\ pc' = "subscribe"

----------------------------------------------------------------------------
(* The handler of _main_loop when its own unsubscribe fails.  The call of   *)
(* line 261 is inside the except clause and outside any try: what it        *)
(* raises leaves _main_loop, and _run catches GreenletExit only.            *)

\* a position at which the loop body can raise, as in PushRaises,
\* DrainRaises, FillRaises and FoldRaises
CanRaise ==
    \/ pc = "push" /\ request # <<>>
    \/ pc = "drain" /\ Len(ws_events) <= MaxEvents
    \/ pc = "fill" /\ \E i \in 1..Len(events) : NeedsFetch(events[i])
    \/ pc \in {"filter", "fold"}

\* the loop body raises and the unsubscribe of the handler raises too: the
\* exception leaves _run and the greenlet is dead, still subscribed
RecoveryRaises ==
    /\ CanRaise
    /\ pc' = "dead"
    /\ last_push' = IF pc = "push" THEN Callbacks(Head(request), "raised")
                    ELSE last_push
    /\ request' = <<>>
    /\ events' = <<>>
    /\ owned_events' = <<>>
    /\ monitored_events' = <<>>
    /\ drained_from' = <<>>
    /\ had_reset' = FALSE
    /\ UNCHANGED <<apic, subscribed, ws_events, state, operational_state,
                   monitored_state, tag_set, object_backlog, next_id,
                   last_get>>
    /\ UNCHANGED <<desired, sync_status, tracked>>
    /\ sync_phase' = IF pc = "push" /\ sync_phase # "none"
                        /\ last_get = tracked
                      THEN "none" ELSE sync_phase
    /\ UNCHANGED <<count, warm, snapshot, aid_state, tenant,
                   reconcile_calls, shared>>

NextRecovery ==
    \/ NextLife
    \/ RecoveryRaises

SpecRecovery == Init /\ [][NextRecovery]_vars

\* C34: the worker leaves its run loop only in response to the stop
\* signal: no failure of subscribe, event processing or push, and no
\* failure of the unsubscribe made while recovering from such a failure,
\* ends the worker.
C34_OnlyStopEndsTheWorker ==
    [][(InLoop /\ ~InLoop') => pc' = "exiting"]_vars

\* the greenlet is dead without a stop signal: the fill of a batch raised
\* and the unsubscribe of the handler raised after it
C34_Witness ==
    /\ pc = "dead"
    /\ subscribed
    /\ ws_events = <<>>
    /\ BD \in DOMAIN state

----------------------------------------------------------------------------
(* Two workers, of the roots t and common, over one Fabric session.  The    *)
(* session keeps one queue of events for each URL it is subscribed to       *)
(* (is_subscribed(url), has_events(url), get_event(url)); each worker       *)
(* computes its URL with Tenant._get_instance_subscription_urls.            *)

MaxPending == 2     \* events waiting in one queue of the shared session

SharedRoots == {"t", "common"}

\* a BD of the root n, and the event the Fabric sends for it
ObjectOf(n) == <<<<"uni">>, <<"tn", n>>, <<"BD", "b">>>>
EventFor(n) == [klass |-> BD_KEY, attributes |-> [dn |-> ObjectOf(n)]]

\* AciTenantManager.__init__ of the worker of root n
Manager(n) ==
    [tenant |-> Tenant(n, <<TENANT_KEY, BD_KEY, TAG_KEY>>), url |-> "",
     pc |-> "subscribe", state |-> EmptyTree,
     operational_state |-> EmptyTree, monitored_state |-> EmptyTree,
     tag_set |-> {}]

UrlOf(n) == _get_instance_subscription_urls(managers[n].tenant)[1]

\* Tenant._instance_subscribe: if not session.is_subscribed(url):
\* session.subscribe(url)
ManagerSubscribe(n) ==
    /\ managers[n].pc = "subscribe"
    /\ session' = IF UrlOf(n) \in DOMAIN session THEN session
                  ELSE [u \in DOMAIN session \cup {UrlOf(n)} |->
                           IF u = UrlOf(n) THEN <<>> ELSE session[u]]
    /\ managers' = [managers EXCEPT ![n].pc = "events", ![n].url = UrlOf(n)]

\* the Fabric sends an event of an object of root n on the subscription
\* the worker of n has made
Deliver(n) ==
    /\ managers[n].url \in DOMAIN session
    /\ Len(session[managers[n].url]) < MaxPending
    /\ session' = [session EXCEPT
                      ![managers[n].url] = Append(@, EventFor(n))]
    /\ UNCHANGED managers

\* _event_loop of the worker of root n: the events of its URL are drained,
\* flattened, filled, filtered and folded into its trees
ManagerEventLoop(n) ==
    /\ managers[n].pc = "events"
    /\ LET queue == session[UrlOf(n)]
           drained == instance_get_event_data(queue)
           flat == flat_events(drained)
           filled == retrieve_aci_objects(flat, All404(flat))
           f == _filter_ownership(filled, managers[n].tag_set)
           reset == NeedsReset(drained)
           config == IF reset THEN EmptyTree ELSE managers[n].state
           operational == IF reset THEN EmptyTree
                          ELSE managers[n].operational_state
       IN  IF queue = <<>>
           THEN /\ managers' = [managers EXCEPT ![n].pc = "subscribe"]
                /\ UNCHANGED session
           ELSE /\ session' = [session EXCEPT ![UrlOf(n)] = <<>>]
                /\ managers' =
                      [managers EXCEPT
                          ![n].pc = "subscribe",
                          ![n].tag_set =
                              DiscardDeleted(f.owned \o f.monitored,
                                             f.tag_set),
                          ![n].monitored_state =
                              FoldMonitored(@, f.monitored),
                          ![n].state =
                              FoldConfig(config, f.owned, f.monitored),
                          ![n].operational_state =
                              FoldOperational(operational, f.owned,
                                              f.monitored)]

\* what the workers of the shared session leave alone
alone == <<apic, subscribed, ws_events, pc, events, owned_events,
           monitored_events, drained_from, had_reset, state,
           operational_state, monitored_state, tag_set, object_backlog,
           request, next_id, last_get, last_push, sync_state, count, warm,
           snapshot, aid_state, tenant, reconcile_calls>>

NextShared ==
    \E n \in SharedRoots :
        /\ \/ ManagerSubscribe(n)
           \/ Deliver(n)
           \/ ManagerEventLoop(n)
        /\ UNCHANGED alone

InitShared ==
    /\ InitAid
    /\ InitWorker(BareFabric, <<>>, "subscribe",
                  Tenant(tenant_name, <<TENANT_KEY, BD_KEY, TAG_KEY>>))
    /\ session = <<>>
    /\ managers = [n \in SharedRoots |-> Manager(n)]

SpecShared == InitShared /\ [][NextShared]_vars

\* the root of the object at dn
RootOf(dn) == dn[2][2]

\* the DNs the worker of root n holds in its trees
HeldBy(n) ==
    DOMAIN managers[n].state \cup DOMAIN managers[n].operational_state
       \cup DOMAIN managers[n].monitored_state

\* C35: workers of two different roots that share one session subscribe
\* to and drain different URLs, so that an event delivered for one root
\* is never folded into the trees of the other.
C35_RootsAreIsolated ==
    /\ \A n, m \in SharedRoots :
          (n # m /\ managers[n].url # "" /\ managers[m].url # "")
          => managers[n].url # managers[m].url
    /\ \A n \in SharedRoots : \A dn \in HeldBy(n) : RootOf(dn) = n

\* both workers have subscribed, with one and the same URL, and the worker
\* of common holds the BD of t in its monitored tree
C35_Witness ==
    /\ managers["t"].url # ""
    /\ managers["t"].url = managers["common"].url
    /\ ObjectOf("t") \in DOMAIN managers["common"].monitored_state
    /\ ObjectOf("t") \notin DOMAIN managers["t"].monitored_state

----------------------------------------------------------------------------
(* The warm bit over the life of the worker, checked under SpecLife.        *)

\* C36: warmness is monotonic: once is_warm() has returned true it returns
\* true for the rest of the worker's life, also after an exception that
\* made the worker unsubscribe and subscribe again, after a root reset
\* that emptied the trees, and after the stop signal.
C36_WarmIsMonotonic ==
    /\ [][warm => warm']_vars
    /\ [][(warm /\ IsException) => (warm' /\ count' = 3)]_vars
    /\ [][(warm /\ pc = "drain" /\ had_reset') => warm']_vars

\* a warm worker in the iteration that follows an exception (the count is
\* at 3 again), after the drain of a batch that reset its trees
C36_Witness ==
    /\ warm
    /\ count = 3
    /\ pc = "fill"
    /\ had_reset
    /\ state = EmptyTree
    /\ operational_state = EmptyTree

----------------------------------------------------------------------------
(* The fold of a delete event, checked under SpecEvents.                    *)

\* the DNs of the batch that have a delete event of a class other than
\* faultInst and no event that creates or updates them
DeletedOnly(evs) ==
    {Dn(evs[i]) : i \in {j \in 1..Len(evs) :
        /\ evs[j].klass # FAULT_KEY
        /\ Status(evs[j]) = DELETED_STATUS
        /\ \A k \in 1..Len(evs) :
              Dn(evs[k]) = Dn(evs[j]) => _is_deleting(evs[k])}}

Folds == pc = "fold" /\ pc' = "sleep"

\* C37: after the fold of a batch that holds a delete event for a DN d
\* that is not a fault, and no create for d, d is in none of the three
\* trees and not in tag_set, whether or not it was in tag_set before.
C37_DeletedIsGoneEverywhere ==
    [][Folds =>
        \A d \in DeletedOnly(events) :
            /\ d \notin DOMAIN state'
            /\ d \notin DOMAIN operational_state'
            /\ d \notin DOMAIN monitored_state'
            /\ d \notin tag_set'
      ]_vars

\* the batch to fold holds the delete event of the BD and no event of its
\* tag; the BD is owned and in the configuration tree
C37_Witness ==
    /\ pc = "fold"
    /\ BD \in DeletedOnly(events)
    /\ \A i \in 1..Len(events) : events[i].klass # TAG_KEY
    /\ BD \in tag_set
    /\ BD \in DOMAIN state

----------------------------------------------------------------------------
(* The whole pipeline of _event_loop on one batch: queues whose events      *)
(* meet on a DN after flatten and fill (an object that is deleted and is a  *)
(* child of another event of the queue), and tag events of this agent and   *)
(* of another one.                                                          *)

\* the BD exists or not, with or without its fault and its tag
BatchFabrics ==
    {[m \in MoDns |-> CASE m = TN -> "present"
                        [] m = BD -> held[1]
                        [] m = FLT -> held[2]
                        [] OTHER -> held[3]] :
        held \in {<<"absent", "absent", "absent">>}
                 \cup ({"present"} \X {"absent", "present"}
                                   \X {"absent", "present"})}

\* the tag of another agent on the BD
ForeignTagDn == Append(BD, <<"tag", "other">>)

BatchEvents ==
    {[klass |-> BD_KEY, attributes |-> [dn |-> BD, status |-> DELETED_STATUS]],
     [klass |-> BD_KEY, attributes |-> [dn |-> BD],
      children |-> <<[klass |-> FAULT_KEY,
                      attributes |-> [code |-> "F1",
                                      severity |-> "minor"]]>>],
     [klass |-> TENANT_KEY, attributes |-> [dn |-> TN, status |-> "modified"],
      children |-> <<[klass |-> BD_KEY, attributes |-> [name |-> "b"]]>>],
     [klass |-> FAULT_KEY,
      attributes |-> [dn |-> FLT, code |-> "F1", severity |-> "minor"]],
     [klass |-> FAULT_KEY,
      attributes |-> [dn |-> FLT, code |-> "F1", severity |-> "minor",
                      status |-> DELETED_STATUS]]}
    \cup {[klass |-> TAG_KEY, attributes |-> [dn |-> d]] :
             d \in {TagDn(BD), ForeignTagDn}}
    \cup {[klass |-> TAG_KEY,
           attributes |-> [dn |-> d, status |-> DELETED_STATUS]] :
             d \in {TagDn(BD), ForeignTagDn}}

\* the queues of one drain: the events are of different classes or DNs
BatchQueues ==
    {q \in SeqsUpTo(BatchEvents, MaxQueue) :
        /\ q # <<>>
        /\ \A i, j \in 1..Len(q) : i < j => Pair(q[i]) # Pair(q[j])}

InitBatch ==
    /\ InitAid
    /\ \E fabric \in BatchFabrics, queue \in BatchQueues :
          InitWith(fabric, queue, "drain")

NextBatch ==
    \/ Drain
    \/ Fill
    \/ FillRaises
    \/ Filter
    \/ Fold

SpecBatch == InitBatch /\ [][NextBatch]_vars

\* the DNs of a bucket
DnsOf(objs) == {objs[i].dn : i \in 1..Len(objs)}

\* the place of a tree in the loop of _event_to_tree
PlaceOf(kind) == CHOOSE n \in 1..3 : TreeOrder[n] = kind

\* C38: in the fold of a batch each tree applies its delete bucket before
\* its create bucket, and the trees are gone through in the order
\* monitored, config, operational: a DN that is in both buckets of a tree
\* is in that tree after the batch, and a fault to create below an object
\* the configuration pass deletes is in the operational tree after it.
C38_DeleteThenCreate ==
    [][Folds =>
        LET o == owned_events
            m == monitored_events
        IN  /\ DnsOf(MonitoredDelete(m)) \cap DnsOf(MonitoredCreate(m))
                  \subseteq DOMAIN monitored_state'
            /\ DnsOf(ConfigDelete(o, m)) \cap DnsOf(ConfigCreate(o, m))
                  \subseteq DOMAIN state'
            /\ DnsOf(OperationalCreate(o, m))
                  \subseteq DOMAIN operational_state'
            /\ \A i, j \in 1..Len(reconcile_calls') :
                  i < j => PlaceOf(reconcile_calls'[i].after)
                              < PlaceOf(reconcile_calls'[j].after)
      ]_vars

\* the batch to fold holds the delete event of the BD and the BD as a
\* child of the tenant: the BD is in both buckets of the monitored tree
\* and of the configuration tree
C38_Witness ==
    /\ pc = "fold"
    /\ BD \in DnsOf(MonitoredDelete(monitored_events))
                 \cap DnsOf(MonitoredCreate(monitored_events))
    /\ BD \in DnsOf(ConfigDelete(owned_events, monitored_events))
                 \cap DnsOf(ConfigCreate(owned_events, monitored_events))

----------------------------------------------------------------------------
(* The backlog over the life of the worker, checked under SpecLife.         *)

\* a step in which a caller enqueues a request
Enqueues == Len(object_backlog') > Len(object_backlog)

\* C39: each enqueued batch is dequeued at most once.  The backlog changes
\* only by an enqueue of a new request at its end or by the dequeue of its
\* head, and the request dequeued is not in the backlog afterwards; the
\* request in hand only loses the object that was attempted, or all its
\* objects when an exception or the stop signal cuts the push short, and
\* every step of the push on a request in hand takes an object from it;
\* when the push step ends normally the backlog is empty.
C39_DequeuedAtMostOnce ==
    /\ [][Enqueues =>
             /\ Front(object_backlog') = object_backlog
             /\ Last(object_backlog').id = next_id
             /\ next_id' = (next_id + 1) % IdRange
             /\ UNCHANGED <<pc, request, last_get, last_push>>
         ]_vars
    /\ [][(~Enqueues /\ object_backlog' # object_backlog) =>
             /\ object_backlog' = Tail(object_backlog)
             /\ last_get' = Head(object_backlog).id
             /\ request = <<>>
             /\ request' = Attempts(Head(object_backlog).resources)
         ]_vars
    /\ [](\A i \in 1..Len(object_backlog) :
             /\ object_backlog[i].id # last_get
             /\ \A j \in 1..Len(object_backlog) :
                   i # j => object_backlog[i].id # object_backlog[j].id)
    /\ [][(request # <<>> /\ request' # request) =>
             request' \in {Tail(request), <<>>}
         ]_vars
    /\ [][(pc = "push" /\ request # <<>> /\ ~Enqueues) =>
             Len(request') < Len(request)
         ]_vars
    /\ [][(pc = "push" /\ pc' = "drain") =>
             (object_backlog' = <<>> /\ request' = <<>>)
         ]_vars

\* an exception has cut a push short: nothing of the request is in hand,
\* the request that was enqueued after it waits untouched, and the worker
\* is about to subscribe again
C39_Witness ==
    /\ pc = "subscribe"
    /\ ~subscribed
    /\ last_push # NoPush
    /\ last_push.outcome = "raised"
    /\ last_push.id = last_get
    /\ request = <<>>
    /\ Len(object_backlog) = 1
    /\ object_backlog[1].id = (last_get + 1) % IdRange

----------------------------------------------------------------------------
(* The tag events of this agent and of another one, under SpecBatch.        *)

IsForeignTag(event) == event.klass = TAG_KEY /\ ~IsOwnTag(event)

\* the events of a list that are tags, of any agent
TagsIn(list) == {i \in 1..Len(list) : list[i].klass = TAG_KEY}

\* the DNs in the three trees
InTrees ==
    DOMAIN state \cup DOMAIN operational_state \cup DOMAIN monitored_state

\* C40: a tagInst event whose last RN is not tag-<system_id of this agent>
\* never changes tag_set (the filter leaves tag_set as the own tag events
\* of the batch alone decide, and as it was when the batch holds none), and
\* no tagInst event, own or foreign, is placed in the owned or monitored
\* list or folded into one of the three trees.
C40_ForeignTagsAreIgnored ==
    /\ [][Filters =>
             /\ tag_set' = TagsAfter(events, tag_set)
             /\ (\A i \in TagsIn(events) : IsForeignTag(events[i]))
                   => tag_set' = tag_set
             /\ TagsIn(owned_events') = {}
             /\ TagsIn(monitored_events') = {}
         ]_vars
    /\ [][Folds =>
             /\ tag_set' \subseteq tag_set
             /\ \A d \in tag_set \ tag_set' :
                   \E i \in 1..Len(events) :
                       /\ events[i].klass # TAG_KEY
                       /\ _is_deleting(events[i])
                       /\ Dn(events[i]) = d
         ]_vars
    /\ [](\A d \in InTrees : Last(d)[1] # "tag")

\* the batch held the tag of another agent on the BD, and the BD: the BD
\* is not owned, its event is in the monitored list, and the tag is in
\* neither list
C40_Witness ==
    /\ pc = "fold"
    /\ \E i \in 1..Len(events) :
          /\ IsForeignTag(events[i])
          /\ ~_is_deleting(events[i])
          /\ ParentDn(Dn(events[i])) = BD
    /\ \A i \in 1..Len(events) : ~IsOwnTag(events[i])
    /\ BD \notin tag_set
    /\ \E i \in 1..Len(monitored_events) : Dn(monitored_events[i]) = BD
    /\ \A i \in 1..Len(owned_events) : Dn(owned_events[i]) # BD

=============================================================================
